---- MODULE Spec2Model ----
(***************************************************************************)
(* Model of the PennyPet invoice pipeline                                  *)
(* (src/llm_parser/pennypet_processor.py, src/config/pennypet_config.py).  *)
(*                                                                         *)
(* Money.  Every amount is an integer number of half-cents (0.005 EUR):    *)
(* Euro(n) is n euros, Cent(n) is n cents.  Invoice amounts are whole      *)
(* cents, so the product montant * 0.5 of the INTEGRAL formula and the     *)
(* products montant * taux of the rule table (taux in {0, 50, 100} %) are  *)
(* exact, as they are in binary floating point.                            *)
(*                                                                         *)
(* Strings are TLA+ strings; the Python string operations the code uses    *)
(* (lower, upper, strip, in, re.sub, split/join) are computed character    *)
(* by character.                                                           *)
(***************************************************************************)
EXTENDS Integers, Sequences, FiniteSets, TLC

VARIABLES
    regles_pc_df,   \* PennyPetProcessor.regles_pc_df: the coverage-rule table
    config,         \* the lexicon the normaliser reads from PennyPetConfig
    clients,        \* which of client_qwen, client_mistral is not None
    cache,          \* NormaliseurAMVAmeliore.cache
    stats,          \* PennyPetProcessor.stats
    pc,             \* "idle", or "done": process_facture_pennypet has returned
    appel,          \* arguments and environment of the call that returned
    data,           \* the data extract_lignes_from_image gave that call
    res,            \* the dict that call returned
    calc_in,        \* arguments of the current calculer_remboursement call
    calc_out,       \* its returned dict (AUCUN before the call returns)
    calc_pc,        \* "appel" before the call, "retour" after it
    journal,        \* what the calls made so far on one processor returned
    config_dir,     \* the configuration directory on disk and its files
    pennypet_config, \* the attributes of the PennyPetConfig being constructed
    pc_config,      \* "debut", or "fini": PennyPetConfig.__init__ has returned
    retries,        \* OpenRouterClient.chat: its argument retries
    attempt,        \* the loop variable of chat
    last_exception, \* its local last_exception: the attempt that raised it
    chat_pc,        \* "boucle", "attente", or "retour" / "leve": chat ended
    chat_out,       \* the response chat returned or the exception it raised
    chat_journal    \* the API attempts and the waits chat has made, in order

vars_proc == <<config, clients, cache, stats, pc, appel, data, res>>
vars_calc == <<calc_in, calc_out, calc_pc>>
vars_config == <<config_dir, pennypet_config, pc_config>>
vars_chat ==
    <<retries, attempt, last_exception, chat_pc, chat_out, chat_journal>>
vars == <<regles_pc_df, vars_proc, vars_calc, journal, vars_config, vars_chat>>

-----------------------------------------------------------------------------
(* Bounds of the model *)

\* amounts tried by the calculator: 0, PasEuros, 2*PasEuros, ... MaxPas*PasEuros
MaxPas == 10
\* longest coverage-rule table
MaxRegles == 2
\* most lines in the 'lignes' list of one LLM response
MaxLignes == 3
\* most calls made on one normaliser
MaxAppels == 3
\* most files of the configuration directory that are not complete
MaxDefauts == 2
\* largest value of the argument retries of chat (its default is 3)
MaxRetries == 3
\* most calls of process_facture_pennypet made on one processor
MaxFactures == 2

-----------------------------------------------------------------------------
(* Money and absent values *)

Euro(n) == 200 * n
Cent(n) == 2 * n

\* a key the Python dict does not have / a None value
NONE == "<None>"
\* a NaN cell of a DataFrame column of strings
NaN == "<NaN>"
\* no dict returned yet
AUCUN == [vide |-> TRUE]

\* the truth value Python gives a string or None
Vrai(code) == code # NONE /\ code # ""

Min(a, b) == IF a <= b THEN a ELSE b

\* the sequences over S of length at most n
SeqMax(S, n) == UNION {[1..k -> S] : k \in 0..n}

-----------------------------------------------------------------------------
(* Python string operations *)

Minuscules == "abcdefghijklmnopqrstuvwxyz"
Majuscules == "ABCDEFGHIJKLMNOPQRSTUVWXYZ"
Chiffres == "0123456789"

Ch(s, i) == SubSeq(s, i, i)
Reste(s) == SubSeq(s, 2, Len(s))

DansAlphabet(c, alphabet) == \E i \in 1..Len(alphabet) : Ch(alphabet, i) = c
Rang(c, alphabet) == CHOOSE i \in 1..Len(alphabet) : Ch(alphabet, i) = c

LowerCh(c) ==
    IF DansAlphabet(c, Majuscules) THEN Ch(Minuscules, Rang(c, Majuscules))
    ELSE c
UpperCh(c) ==
    IF DansAlphabet(c, Minuscules) THEN Ch(Majuscules, Rang(c, Minuscules))
    ELSE c

\* str.lower()
RECURSIVE Lower(_)
Lower(s) == IF s = "" THEN "" ELSE LowerCh(Ch(s, 1)) \o Lower(Reste(s))

\* str.upper()
RECURSIVE Upper(_)
Upper(s) == IF s = "" THEN "" ELSE UpperCh(Ch(s, 1)) \o Upper(Reste(s))

\* \s, \d and \w of the re module
EstEspace(c) == c = " "
EstChiffre(c) == DansAlphabet(c, Chiffres)
EstMot(c) ==
    \/ DansAlphabet(c, Minuscules)
    \/ DansAlphabet(c, Majuscules)
    \/ EstChiffre(c)
    \/ c = "_"

\* str.strip()
RECURSIVE LStrip(_)
LStrip(s) == IF s # "" /\ EstEspace(Ch(s, 1)) THEN LStrip(Reste(s)) ELSE s
RECURSIVE RStrip(_)
RStrip(s) ==
    IF s # "" /\ EstEspace(Ch(s, Len(s)))
    THEN RStrip(SubSeq(s, 1, Len(s) - 1))
    ELSE s
Strip(s) == RStrip(LStrip(s))

\* k in s
Contient(s, k) ==
    \E i \in 1..(Len(s) - Len(k) + 1) : SubSeq(s, i, i + Len(k) - 1) = k

\* s.startswith(k)
CommencePar(s, k) == Len(k) <= Len(s) /\ SubSeq(s, 1, Len(k)) = k

\* s.split(): the maximal runs of non-space characters
RECURSIVE SplitDe(_, _, _)
SplitDe(s, courant, acc) ==
    IF s = ""
    THEN (IF courant = "" THEN acc ELSE Append(acc, courant))
    ELSE IF EstEspace(Ch(s, 1))
    THEN SplitDe(Reste(s), "", IF courant = "" THEN acc ELSE Append(acc, courant))
    ELSE SplitDe(Reste(s), courant \o Ch(s, 1), acc)
Split(s) == SplitDe(s, "", <<>>)

\* ' '.join(mots)
RECURSIVE Join(_)
Join(mots) ==
    IF mots = <<>> THEN ""
    ELSE IF Len(mots) = 1 THEN mots[1]
    ELSE mots[1] \o " " \o Join(Tail(mots))

\* re.sub(r'[^\w\s<extras>]', ' ', s): every character that is neither a word
\* character, nor white space, nor one of extras becomes ' '
RECURSIVE SubEspace(_, _)
SubEspace(s, extras) ==
    IF s = "" THEN ""
    ELSE LET c == Ch(s, 1)
         IN  (IF EstMot(c) \/ EstEspace(c) \/ DansAlphabet(c, extras)
              THEN c ELSE " ") \o SubEspace(Reste(s), extras)

-----------------------------------------------------------------------------
(* The four PennyPet formulas: calculer_remboursement, lines 744-792 *)

\* min(montant, 500.0) and min(..., 1000.0): the caps written in the code
PlafondPremium == 500
PlafondIntegral == 1000
PlafondIntegralPlus == 1000

FormulesConnues == {"START", "PREMIUM", "INTEGRAL", "INTEGRAL_PLUS"}

\* the dict literal returned by the four formula branches
ResultatFormule(montant, taux, remb, formule, couverture) ==
    [montant_ht      |-> montant,
     taux            |-> taux,
     remb_final      |-> remb,
     reste           |-> montant - remb,
     formule         |-> formule,
     type_couverture |-> couverture,
     erreur          |-> NONE,
     regle_source    |-> NONE]

\* the dict literal returned by the error / unknown / no-rule branches
ResultatErreur(montant, erreur) ==
    [montant_ht      |-> montant,
     taux            |-> 0,
     remb_final      |-> 0,
     reste           |-> montant,
     formule         |-> NONE,
     type_couverture |-> NONE,
     erreur          |-> erreur,
     regle_source    |-> NONE]

-----------------------------------------------------------------------------
(* The coverage-rule table: _load_regles and _calculer_avec_dataframe *)

ColonnesRegles ==
    {"formule", "code_acte", "actes_couverts", "type_couverture",
     "taux_remboursement", "plafond_annuel"}

\* PennyPetConfig._init_empty_config / a missing file: pd.DataFrame()
DfVide == [colonnes |-> {}, lignes |-> <<>>]

\* DataFrame.empty: no row, or no column
DfEmpty(df) == Len(df.lignes) = 0 \/ df.colonnes = {}

\* the boolean mask of lines 821-834, for one row
MasqueRegle(r, code_acte, formule, est_accident) ==
    /\ r.formule = formule
    /\ \/ r.code_acte = code_acte
       \/ /\ (IF r.code_acte = NaN THEN "ALL" ELSE r.code_acte) = "ALL"
          /\ code_acte \in r.actes_couverts
    /\ \/ r.type_couverture = "ACCIDENT_MALADIE"
       \/ (r.type_couverture = "ACCIDENT_SEULEMENT" /\ est_accident)

\* reg = df[mask]: the indices of the selected rows, in table order
RegIndices(df, code_acte, formule, est_accident) ==
    {i \in 1..Len(df.lignes) :
        MasqueRegle(df.lignes[i], code_acte, formule, est_accident)}

\* reg.iloc[0]
PremiereRegle(df, code_acte, formule, est_accident) ==
    LET reg == RegIndices(df, code_acte, formule, est_accident)
    IN  df.lignes[CHOOSE i \in reg : \A j \in reg : i <= j]

ResultatRegleBrut(r, avec_plafond, montant, formule) ==
    LET remb_brut  == (montant * r.taux_remboursement) \div 100
        remb_final == IF avec_plafond THEN Min(remb_brut, r.plafond_annuel)
                      ELSE remb_brut
    IN  [montant_ht      |-> montant,
         taux            |-> r.taux_remboursement,
         remb_final      |-> remb_final,
         reste           |-> montant - remb_brut,
         formule         |-> formule,
         type_couverture |-> NONE,
         erreur          |-> NONE,
         regle_source    |-> "dataframe"]

\* lines 846-860: the row found, applied to the amount
ResultatRegle(r, avec_plafond, montant, formule) ==
    LET remb_brut  == (montant * r.taux_remboursement) \div 100
        remb_final == IF avec_plafond THEN Min(remb_brut, r.plafond_annuel)
                      ELSE remb_brut
    IN  [montant_ht      |-> montant,
         taux            |-> r.taux_remboursement,
         remb_final      |-> remb_final,
         reste           |-> montant - remb_final,
         formule         |-> formule,
         type_couverture |-> NONE,
         erreur          |-> NONE,
         regle_source    |-> "dataframe"]

calculer_avec_dataframe(df, montant, code_acte, formule, est_accident) ==
    IF ~ ({"formule", "code_acte", "actes_couverts", "type_couverture"}
            \subseteq df.colonnes)
    THEN \* KeyError while the mask is built, caught at line 862
         ResultatErreur(montant, "Erreur calcul DataFrame")
    ELSE IF RegIndices(df, code_acte, formule, est_accident) = {}
    THEN ResultatErreur(montant, "Aucune regle DataFrame")
    ELSE IF "taux_remboursement" \notin df.colonnes
    THEN \* KeyError on r["taux_remboursement"], caught at line 862
         ResultatErreur(montant, "Erreur calcul DataFrame")
    ELSE ResultatRegle(PremiereRegle(df, code_acte, formule, est_accident),
                       "plafond_annuel" \in df.colonnes, montant, formule)

-----------------------------------------------------------------------------
(* calculer_remboursement *)

\* line 755: remb = min(montant, 500.0)
RembPremium(montant) == Min(montant, Euro(PlafondPremium))

RembIntegralSansPlafond(montant) == montant \div 2

\* line 774: remb = min(montant * 0.5, 1000.0)
RembIntegral(montant) == Min(montant \div 2, Euro(PlafondIntegral))

RembIntegralPlusMoitie(montant) ==
    Min(montant \div 2, Euro(PlafondIntegralPlus))

\* line 784: remb = min(montant, 1000.0)
RembIntegralPlus(montant) == Min(montant, Euro(PlafondIntegralPlus))

calculer_remboursement(df, montant, code_acte, formule, est_accident) ==
    IF formule = "START"
    THEN ResultatFormule(montant, 0, 0, formule, "aucune")
    ELSE IF formule = "PREMIUM"
    THEN IF est_accident
         THEN ResultatFormule(montant, 100, RembPremium(montant),
                              formule, "accident_seulement")
         ELSE ResultatFormule(montant, 0, 0, formule, "accident_seulement")
    ELSE IF formule = "INTEGRAL"
    THEN ResultatFormule(montant, 50, RembIntegral(montant),
                         formule, "accident_et_maladie")
    ELSE IF formule = "INTEGRAL_PLUS"
    THEN ResultatFormule(montant, 100, RembIntegralPlus(montant),
                         formule, "accident_et_maladie")
    ELSE IF ~ DfEmpty(df)
    THEN calculer_avec_dataframe(df, montant, code_acte, formule, est_accident)
    ELSE ResultatErreur(montant, "Formule inconnue")

-----------------------------------------------------------------------------
(* The configurations and the invoices of the model *)

\* a value of montant_ht or montant_total in the parsed JSON
Nombre(v) == [genre |-> "nombre", valeur |-> v]
Texte == [genre |-> "texte", valeur |-> 0]
Absent == [genre |-> "absent", valeur |-> 0]
\* an integer literal too large for a float: float() raises OverflowError
Enorme == [genre |-> "enorme", valeur |-> 0]

Item(code, description, montant) ==
    [est_dict |-> TRUE, code_acte |-> code, description |-> description,
     montant_ht |-> montant]
\* an element of 'lignes' that is no JSON object
ItemNonDict ==
    [est_dict |-> FALSE, code_acte |-> NONE, description |-> NONE,
     montant_ht |-> Absent]

\* PennyPetConfig._init_empty_config, lines 54-67
ConfigVide ==
    [actes_df |-> <<>>, termes_actes |-> <<>>, glossaire_normalise |-> {},
     mapping_amv |-> {}]

\* a lexicon loaded from the configuration files: rows of actes_df (pattern
\* is the literal of the compiled regex), the act terms in the iteration
\* order of the set termes_actes, the preprocessed glossary, the AMV mapping
ConfigLexique ==
    [actes_df |-> <<[field_label |-> "Chute", pattern |-> "chute",
                     code_acte |-> "TRAUMA_CHUTE"],
                    [field_label |-> "Pansement", pattern |-> NONE,
                     code_acte |-> "PANSEMENT"]>>,
     termes_actes |-> <<"chute", "pansement">>,
     glossaire_normalise |-> {"amoxicilline", "metacam"},
     mapping_amv |-> {[cle |-> "Vermifuge", valeur |-> "Medicament"]}]

\* a rule file with a row for a formula name that is not one of the four
TableLexique ==
    [colonnes |-> ColonnesRegles,
     lignes |-> <<[formule |-> "premium", code_acte |-> "ALL",
                   actes_couverts |-> {"ACTES", "MEDICAMENTS", "TRAUMA_CHUTE"},
                   type_couverture |-> "ACCIDENT_MALADIE",
                   taux_remboursement |-> 100,
                   plafond_annuel |-> Euro(500)]>>]

\* the configurations a processor is built with: every file loaded, or the
\* empty configuration
Deploiements ==
    {[config |-> ConfigLexique, regles |-> TableLexique],
     [config |-> ConfigVide, regles |-> DfVide]}

\* the construction of the second client failed (lines 610-614):
\* client_mistral is None
ClientsPossibles == {[qwen |-> TRUE, mistral |-> FALSE]}

\* the elements an LLM puts in 'lignes'
ItemsFacture ==
    {Item("Consultation", "Consultation generale", Nombre(Euro(300))),
     Item("Chute escalier", NONE, Nombre(Euro(1500))),
     Item("FRACTURE patte", "Fracture patte avant - chirurgie",
          Nombre(Euro(800))),
     Item("Vaccin rage 10ml", "Vaccin  (rappel) + soin", Nombre(Cent(4501))),
     Item("Radio", "Radio thorax", Texte),
     Item("Remise", NONE, Nombre(0 - Euro(20))),
     Item(NONE, "acte", Nombre(Euro(10)))}

\* the lines the patterns of reconstruire_json_manuellement can capture
ItemsReconstruits ==
    {Item("Consultation", "Consultation generale", Nombre(Euro(300)))}

\* the montant_total an LLM reports need not be the sum of the lines
TotalAnnonce == Nombre(Euro(9999))

Contenu(forme, genre, lignes) ==
    [forme |-> forme, genre_lignes |-> genre, lignes |-> lignes,
     montant_total |-> TotalAnnonce]

ContenusLLM ==
    {Contenu(f, "absent", <<>>) :
        f \in {"vide", "sans_accolade", "non_equilibre", "float_invalide"}}
    \cup {Contenu("json", "absent", <<>>), Contenu("json", "autre", <<>>)}
    \cup {Contenu("json", "liste", l) : l \in SeqMax(ItemsFacture, MaxLignes)}
    \cup {Contenu("json_invalide", "liste", l) : l \in SeqMax(ItemsReconstruits, 1)}

ReponsesLLM ==
    {[leve |-> TRUE, contenu |-> Contenu("vide", "absent", <<>>)]}
    \cup {[leve |-> FALSE, contenu |-> c] : c \in ContenusLLM}

FormulesFacture == FormulesConnues \cup {"premium"}

Fournisseurs == {"qwen", "mistral"}

\* the elements of the lists given to _nettoyer_donnees_extraites alone: a
\* clean line, a text as amount, an element that is no object, a line
\* without code, a negative amount, an amount too large for a float
ItemsNettoyage ==
    {Item("Consultation", "Consultation generale", Nombre(Euro(300))),
     Item("Radio", "Radio thorax", Texte),
     ItemNonDict,
     Item(NONE, "acte", Nombre(Euro(10))),
     Item("Remise", NONE, Nombre(0 - Euro(20))),
     Item("Vaccin rage 10ml", "Vaccin  (rappel) + soin", Enorme)}

\* every element of a 'lignes' list of the model
ItemsModele ==
    ItemsFacture \cup ItemsReconstruits \cup {ItemNonDict} \cup ItemsNettoyage

\* what an LLM writes
ChainesBrutes ==
    (({it.code_acte : it \in ItemsModele}
        \cup {it.description : it \in ItemsModele}) \ {NONE})
    \cup {"ERREUR", "Erreur parsing", "ERREUR_CRITIQUE", "Erreur critique"}

-----------------------------------------------------------------------------
(* The LLM response and its extraction: lines 69-185 and 639-736 *)
(*                                                                         *)
(* A response text is described by what the parsing steps make of it:      *)
(*   forme "vide"           content is empty or None                       *)
(*   forme "sans_accolade"  the text holds no '{'                          *)
(*   forme "non_equilibre"  the braces opened at the first '{' never close *)
(*   forme "json"           json.loads succeeds on the cleaned text        *)
(*   forme "json_invalide"  json.loads raises JSONDecodeError; lignes are  *)
(*                          what the patterns of                           *)
(*                          reconstruire_json_manuellement find            *)
(*   forme "float_invalide" as json_invalide, and a captured amount such   *)
(*                          as "1.2.3" makes float() raise                 *)
(* genre_lignes tells what the 'lignes' key of the parsed object holds:    *)
(* "liste" (a list, in lignes), "autre" (a non-empty value that is no      *)
(* list) or "absent" (no key, null).                                       *)
(* An item of the list is a dict (est_dict) with an optional code_acte,    *)
(* an optional description and a montant_ht that is a number (genre        *)
(* "nombre", valeur v), a text that is no number ("texte") or missing      *)
(* ("absent").                                                             *)

Donnees(genre, lignes, total) ==
    [genre_lignes |-> genre, lignes |-> lignes, montant_total |-> total]

\* lines 107-111, 181-185 and 675-679: the fallback structures
StructureErreur(code, description) ==
    Donnees("liste", <<Item(code, description, Nombre(0))>>, Nombre(0))

\* lines 113-185
reconstruire_json_manuellement(contenu) ==
    IF contenu.forme = "float_invalide"
    THEN StructureErreur("ERREUR", "Erreur parsing")
    ELSE Donnees("liste", contenu.lignes, contenu.montant_total)

\* lines 69-111: leve tells that the ValueError of lines 77 or 91, which the
\* except clause of line 97 does not catch, leaves the function
extraire_json_robuste(contenu) ==
    IF contenu.forme \in {"sans_accolade", "non_equilibre"}
    THEN [leve |-> TRUE, data |-> AUCUN]
    ELSE IF contenu.forme = "json"
    THEN [leve |-> FALSE,
          data |-> Donnees(contenu.genre_lignes, contenu.lignes,
                           contenu.montant_total)]
    ELSE [leve |-> FALSE, data |-> reconstruire_json_manuellement(contenu)]

\* lines 710-713
NettoyerChaine(s) == Join(Split(SubEspace(Strip(s), "-().,")))

\* the texts of the model: what an LLM writes, and the cleaned texts
ChainesLLM == ChainesBrutes \cup {NettoyerChaine(s) : s \in ChainesBrutes}

\* NettoyerChaine, evaluated once for each text of the model
TableNettoyerChaine == [s \in ChainesLLM |-> NettoyerChaine(s)]
NettoyerChaineMemo(s) == TableNettoyerChaine[s]

\* lines 702-705: float(ligne.get("montant_ht", 0)), 0.0 on ValueError
NettoyerMontant(m) == IF m.genre = "nombre" THEN m.valeur ELSE 0

\* lines 700-717 for one dict line: the cleaned line
LigneNettoyee(item) ==
    [code_acte   |-> IF item.code_acte = NONE THEN NONE
                     ELSE NettoyerChaineMemo(item.code_acte),
     description |-> IF item.description = NONE THEN NONE
                     ELSE NettoyerChaineMemo(item.description),
     montant_ht  |-> NettoyerMontant(item.montant_ht)]

\* line 716: the minimal validation
LigneValide(ligne) == ligne.montant_ht >= 0 /\ Vrai(ligne.code_acte)

\* lines 697-719: lignes_propres
RECURSIVE LignesPropres(_)
LignesPropres(items) ==
    IF items = <<>> THEN <<>>
    ELSE (IF Head(items).est_dict /\ LigneValide(LigneNettoyee(Head(items)))
          THEN <<LigneNettoyee(Head(items))>>
          ELSE <<>>) \o LignesPropres(Tail(items))

\* lines 693-736, on the parsed data: the data after cleaning
nettoyer_donnees_extraites(dn) ==
    [genre_lignes  |-> dn.genre_lignes,
     lignes        |-> IF dn.genre_lignes = "liste"
                       THEN LignesPropres(dn.lignes) ELSE dn.lignes,
     montant_total |-> NettoyerMontant(dn.montant_total)]

\* lines 693-736 on the dict itself, with the exception path: the float()
\* of lines 703 and 723 raises OverflowError on an integer too large for a
\* float, which the handlers of lines 704 and 724 do not catch; the handler
\* of line 735 ends the cleaning there.  The lines stay in the form they
\* are read in (est_dict, montant_ht with its genre).
\* informations_client is absent, a value that is no dict, or a dict; a
\* value of the dict is a text, a number (texte is its str()) or null.
ClientAbsent == [genre |-> "absent", nom_animal |-> [genre |-> "nul", texte |-> ""]]
ClientNonDict == [genre |-> "autre", nom_animal |-> [genre |-> "nul", texte |-> ""]]
ClientDict(v) == [genre |-> "dict", nom_animal |-> v]
ValeursClient ==
    {[genre |-> "texte", texte |-> " Radio "], [genre |-> "texte", texte |-> ""],
     [genre |-> "nombre", texte |-> "5"], [genre |-> "nul", texte |-> ""]}

\* lines 729-731: a value that is truthy becomes str(value).strip()
ValeurClientNettoyee(v) ==
    IF v.genre = "nul" \/ v.texte = "" THEN v
    ELSE [genre |-> "texte", texte |-> Strip(v.texte)]

\* lines 728-733
ClientNettoye(ic) ==
    IF ic.genre = "dict" THEN ClientDict(ValeurClientNettoyee(ic.nom_animal))
    ELSE [genre |-> "dict", nom_animal |-> [genre |-> "nul", texte |-> ""]]

\* lines 700-713: a dict line after its cleaning in place
ItemNettoye(item) ==
    Item(LigneNettoyee(item).code_acte, LigneNettoyee(item).description,
         Nombre(LigneNettoyee(item).montant_ht))

\* the dict lines whose amount makes float() raise OverflowError
LignesEnormes(lignes) ==
    {i \in 1..Len(lignes) :
        lignes[i].est_dict /\ lignes[i].montant_ht.genre = "enorme"}

\* lines 697-719 when no line raises: lignes_propres
RECURSIVE ItemsPropres(_)
ItemsPropres(items) ==
    IF items = <<>> THEN <<>>
    ELSE (IF Head(items).est_dict /\ LigneValide(LigneNettoyee(Head(items)))
          THEN <<ItemNettoye(Head(items))>>
          ELSE <<>>) \o ItemsPropres(Tail(items))

\* the list after the loop was left at the first line that raises: the dict
\* lines before it were cleaned in place, the list itself was not replaced
ItemsInterrompus(lignes) ==
    [i \in 1..Len(lignes) |->
        IF lignes[i].est_dict /\ \A k \in LignesEnormes(lignes) : i < k
        THEN ItemNettoye(lignes[i])
        ELSE lignes[i]]

NettoyageSurPlace(d) ==
    IF d.genre_lignes = "liste" /\ LignesEnormes(d.lignes) # {}
    THEN [d EXCEPT !.lignes = ItemsInterrompus(@)]
    ELSE IF d.montant_total.genre = "enorme"
    THEN [d EXCEPT !.lignes = IF d.genre_lignes = "liste"
                              THEN ItemsPropres(@) ELSE @]
    ELSE [d EXCEPT !.lignes = IF d.genre_lignes = "liste"
                              THEN ItemsPropres(@) ELSE @,
                   !.montant_total = Nombre(NettoyerMontant(@)),
                   !.informations_client = ClientNettoye(@)]

\* self.stats, lines 624-631 and 878-885
StatsZero ==
    [lignes_traitees |-> 0, medicaments_detectes |-> 0, actes_detectes |-> 0,
     erreurs_normalisation |-> 0, erreurs_json |-> 0,
     reconstructions_manuelles |-> 0]

\* lines 664-679: the extraction of the JSON and its statistics.  The test
\* of line 666 raises when 'lignes' is not a list or its first element is
\* no dict; that exception and the one of extraire_json_robuste are caught
\* at line 670.
DonneesExtraites(st, contenu) ==
    LET ex     == extraire_json_robuste(contenu)
        d      == ex.data
        rompu  == \/ ex.leve
                  \/ d.genre_lignes = "autre"
                  \/ (d.genre_lignes = "liste" /\ d.lignes # <<>>
                        /\ ~ d.lignes[1].est_dict)
        garni  == d.genre_lignes = "liste" /\ d.lignes # <<>>
    IN  IF rompu
        THEN [data  |-> StructureErreur("ERREUR_CRITIQUE", "Erreur critique"),
              stats |-> [st EXCEPT !.erreurs_json = @ + 1]]
        ELSE IF garni /\ d.lignes[1].code_acte = "ERREUR_JSON"
        THEN [data |-> d, stats |-> [st EXCEPT !.erreurs_json = @ + 1]]
        ELSE IF garni /\ d.lignes[1].code_acte = "ERREUR"
        THEN [data  |-> d,
              stats |-> [st EXCEPT !.reconstructions_manuelles = @ + 1]]
        ELSE [data |-> d, stats |-> st]

Echec(erreur, st) ==
    [leve |-> TRUE, erreur |-> erreur, data |-> AUCUN, stats |-> st]

\* lines 645-650: the client chosen for llm_provider, when there is one
ClientDisponible(cl, llm_provider) ==
    \/ (Lower(llm_provider) = "qwen" /\ cl.qwen)
    \/ (Lower(llm_provider) = "mistral" /\ cl.mistral)

\* lines 684-689: the check of the cleaned data dn
LignesVerifiees(st, dn) ==
    IF dn.genre_lignes # "liste" \/ dn.lignes = <<>>
    THEN Echec("Aucune ligne extraite apres nettoyage", st)
    ELSE [leve |-> FALSE, erreur |-> NONE, data |-> dn, stats |-> st]

\* lines 639-691.  reponse.leve: analyze_invoice_image raised (chat raises
\* RuntimeError after its retries, line 227); else reponse.contenu is the
\* text of the response.
extract_lignes_from_image(st, cl, llm_provider, reponse) ==
    IF ~ ClientDisponible(cl, llm_provider)
    THEN Echec("Client non disponible", st)
    ELSE IF reponse.leve
    THEN Echec("OpenRouter API failed", st)
    ELSE IF reponse.contenu.forme = "vide"
    THEN Echec("Reponse vide du LLM", st)
    ELSE LignesVerifiees(DonneesExtraites(st, reponse.contenu).stats,
             nettoyer_donnees_extraites(
                 DonneesExtraites(st, reponse.contenu).data))

-----------------------------------------------------------------------------
(* NormaliseurAMVAmeliore: the label normaliser *)
(*                                                                         *)
(* Labels of the model carry no diacritics, so the NFD step of             *)
(* normaliser_accents leaves them unchanged.  The alternatives of the      *)
(* built-in patterns that are spelled with an accent or with '-' or '/'    *)
(* are left out of the word sets below: the patterns are searched in the   *)
(* output of normaliser_accents, which holds no accent and no punctuation, *)
(* so they match nothing.  rapidfuzz is taken as not installed             *)
(* (RAPIDFUZZ_AVAILABLE = False, lines 25-27).                             *)

\* lines 187-203
normaliser_accents(texte) ==
    IF texte = "" THEN "" ELSE Join(Split(SubEspace(Lower(texte), "")))

\* positions 0..Len(s) of a text; position i lies after the i first characters
Positions(s) == 0..Len(s)

\* \b at position i
Frontiere(s, i) ==
    (i > 0 /\ EstMot(Ch(s, i))) # (i < Len(s) /\ EstMot(Ch(s, i + 1)))

\* positions reached from P by \d+, by \s*, by one of the literals
ApresChiffres(s, P) ==
    {j \in Positions(s) :
        \E i \in P : i < j /\ \A k \in (i + 1)..j : EstChiffre(Ch(s, k))}
ApresEspaces(s, P) ==
    {j \in Positions(s) :
        \E i \in P : i <= j /\ \A k \in (i + 1)..j : EstEspace(Ch(s, k))}
ApresUn(s, P, litteraux) ==
    {j \in Positions(s) :
        \E i \in P, l \in litteraux :
            j = i + Len(l) /\ SubSeq(s, i + 1, j) = l}
Debuts(s) == {i \in Positions(s) : Frontiere(s, i)}

\* \b(w1|w2|...)\b : some word of the text is one of the words
UnMotParmi(s, mots) ==
    LET m == Split(s) IN \E i \in 1..Len(m) : m[i] \in mots
\* \b(p1|p2|...) : some word of the text starts with one of the prefixes
UnMotCommencePar(s, prefixes) ==
    LET m == Split(s)
    IN  \E i \in 1..Len(m) : \E p \in prefixes : CommencePar(m[i], p)

\* self.patterns_actes, lines 246-252
MotsPatternsActes ==
    {"consultation", "examen", "visite", "bilan",
     "chirurgie", "intervention",
     "radio", "scanner", "irm", "imagerie",
     "analyse", "laboratoire", "test",
     "urgence", "hospitalisation", "perfusion"}

\* lines 398-409
detecter_patterns_actes(texte) ==
    UnMotParmi(normaliser_accents(texte), MotsPatternsActes)

\* self.patterns_medicaments, lines 234-243
\* r'\b\d+\s*(mg|ml|g|l|ui|iu|mcg|...)\b'
PatternDosage(s) ==
    \E j \in ApresUn(s, ApresEspaces(s, ApresChiffres(s, Debuts(s))),
                     {"mg", "ml", "g", "l", "ui", "iu", "mcg"}) :
        Frontiere(s, j)
\* r'\b\d+\s*x\s*\d+\s*(mg|ml|g|l|cp|...)\b'
PatternPosologie(s) ==
    \E j \in ApresUn(s,
               ApresEspaces(s, ApresChiffres(s, ApresEspaces(s,
                 ApresUn(s, ApresEspaces(s, ApresChiffres(s, Debuts(s))),
                         {"x"})))),
               {"mg", "ml", "g", "l", "cp"}) :
        Frontiere(s, j)
\* r'\b(...|cp|...|sol|inj|ampoule|flacon|tube|...|sachet|pipette)\.?\s*\d*'
PrefixesFormes ==
    {"cp", "sol", "inj", "ampoule", "flacon", "tube", "sachet", "pipette"}
MotsClasses ==
    {"antibiotic", "antiparasitaire", "antifongique", "antiviral", "vermifuge"}
MotsVaccins == {"vaccin", "vaccination", "rappel", "immunoglobuline"}
MotsGaleniques ==
    {"seringue", "pipette", "spray", "pommade", "lotion", "collyre", "gouttes"}
MotsPharma ==
    {"principe", "actif", "laboratoire", "generique", "specialite", "marque"}
\* r'\b(...|analg|cortico|hormon|vitamin|mineral|...)\w*\b'
PrefixesTherapeutiques == {"analg", "cortico", "hormon", "vitamin", "mineral"}

\* lines 385-396
detecter_patterns_medicaments(texte) ==
    LET s == normaliser_accents(texte)
    IN  \/ PatternDosage(s)
        \/ UnMotCommencePar(s, PrefixesFormes)
        \/ UnMotParmi(s, MotsClasses)
        \/ UnMotParmi(s, MotsVaccins)
        \/ UnMotParmi(s, MotsGaleniques)
        \/ PatternPosologie(s)
        \/ UnMotParmi(s, MotsPharma)
        \/ UnMotCommencePar(s, PrefixesTherapeutiques)

-----------------------------------------------------------------------------
(* Loading of the lexicon: PennyPetConfig and NormaliseurAMVAmeliore.__init__ *)
(*                                                                         *)
(* A regex file is the sequence of its rows (field_label, regex_pattern,   *)
(* code_acte).  The regexes of the model are literals; a regex_pattern     *)
(* that opens a group it never closes, such as "chute(", makes re.compile  *)
(* raise re.error.  A value of the glossary JSON is a text or a number.    *)

LigneRegex(label, regex, code) ==
    [field_label |-> label, regex_pattern |-> regex, code_acte |-> code]

JsonTexte(t) == [genre |-> "texte", texte |-> t]
JsonNombre == [genre |-> "nombre", texte |-> ""]

\* re.compile(str(pat), re.IGNORECASE) succeeds
RegexValide(pat) == ~ Contient(pat, "(")

\* pennypet_config.py lines 149-155
compile_or_none(pat) ==
    IF pat = NaN \/ Lower(pat) \in {"nan", ""} THEN NONE
    ELSE IF RegexValide(pat) THEN pat
    ELSE NONE

\* pennypet_config.py lines 110-165, for a file that has the three columns
load_csv_regex(lignes) ==
    [i \in 1..Len(lignes) |->
        [field_label |-> lignes[i].field_label,
         pattern     |-> compile_or_none(lignes[i].regex_pattern),
         code_acte   |-> lignes[i].code_acte]]

\* pennypet_config.py lines 190-218, for a JSON object with one list value:
\* a number in the list makes t.strip() raise, and line 216 returns set()
load_glossaire_pharmaceutique(valeurs) ==
    IF \E i \in 1..Len(valeurs) : valeurs[i].genre # "texte"
    THEN {}
    ELSE {Lower(Strip(valeurs[i].texte)) :
             i \in {j \in 1..Len(valeurs) : Strip(valeurs[j].texte) # ""}}

FinitPar(s, k) ==
    Len(k) <= Len(s) /\ SubSeq(s, Len(s) - Len(k) + 1, Len(s)) = k
SansFin(s, n) == SubSeq(s, 1, Len(s) - n)

\* lines 357-383; no term of the model holds a key of self.variantes, so
\* the loop of lines 369-372 adds nothing
generer_variantes(terme) ==
    {terme}
    \cup {IF FinitPar(terme, "s") THEN SansFin(terme, 1) ELSE terme \o "s"}
    \cup (IF FinitPar(terme, "aux") THEN {SansFin(terme, 3) \o "al"}
          ELSE IF FinitPar(terme, "al") THEN {SansFin(terme, 2) \o "aux"}
          ELSE {})

\* lines 324-355: the keys of glossaire_normalise (medicaments_df is empty)
preprocess_glossaire(termes) ==
    {normaliser_accents(v) :
        v \in UNION {generer_variantes(t) : t \in termes \ {""}}} \ {""}

\* lines 298-322: the rows that have a compiled pattern, actes_df first
get_actes_df_safe(fichiers) ==
    SelectSeq(load_csv_regex(fichiers.actes)
                 \o load_csv_regex(fichiers.calculs_codes),
              LAMBDA r : r.pattern # NONE)

\* lines 269-296: the lower-cased labels of every row of the regex files
TermesDe(lignes) == {Lower(lignes[i].field_label) : i \in 1..Len(lignes)}
get_termes_actes_safe(fichiers) ==
    TermesDe(fichiers.actes) \cup TermesDe(fichiers.calculs_codes)

\* the orders in which the elements of a set can be iterated
Ordres(S) ==
    {o \in [1..Cardinality(S) -> S] : \A e \in S : \E i \in DOMAIN o : o[i] = e}

\* lines 209-231: the lexicons a normaliser built on the files may hold,
\* one for each iteration order of the set termes_actes
LexiquesDe(fichiers) ==
    {[actes_df            |-> get_actes_df_safe(fichiers),
      termes_actes        |-> o,
      glossaire_normalise |->
          preprocess_glossaire(load_glossaire_pharmaceutique(fichiers.glossaire)),
      mapping_amv         |-> fichiers.mapping_amv] :
        o \in Ordres(get_termes_actes_safe(fichiers))}

\* configuration files: two regex files with rows that match the same
\* labels, a glossary and an AMV mapping
FichiersSains ==
    [actes         |-> <<LigneRegex("Chute", "chute", "TRAUMA_CHUTE"),
                         LigneRegex("Escalier", "escalier", "ESCALIER")>>,
     calculs_codes |-> <<LigneRegex("Escalier", "chute esc", "CALC_CHUTE")>>,
     glossaire     |-> <<JsonTexte("Metacam"), JsonTexte(" Amoxicilline ")>>,
     mapping_amv   |-> {[cle |-> "Vermifuge", valeur |-> "Medicament"]}]

\* the same files with a regex that does not compile in the first row
FichiersRegexInvalide ==
    [FichiersSains EXCEPT
        !.actes = <<LigneRegex("Chute", "chute(", "TRAUMA_CHUTE"),
                    LigneRegex("Escalier", "escalier", "ESCALIER")>>]
\* what the files are without that regex
FichiersSansRegex ==
    [FichiersSains EXCEPT
        !.actes = <<LigneRegex("Chute", "", "TRAUMA_CHUTE"),
                    LigneRegex("Escalier", "escalier", "ESCALIER")>>]

\* the same files with a number among the terms of the glossary
FichiersGlossaireAbime ==
    [FichiersSains EXCEPT
        !.glossaire = <<JsonTexte("Metacam"), JsonNombre,
                        JsonTexte(" Amoxicilline ")>>]

FichiersSession ==
    {FichiersSains, FichiersRegexInvalide, FichiersGlossaireAbime}

\* the labels normalised in a session: a glossary term alone and with a
\* keyword of line 543, a label two rows match, the same label written
\* differently, a label a row and a built-in pattern match, an unknown
\* label, a label of spaces
LibellesSession ==
    {"Metacam", "Metacam ml", "Chute escalier", " chute ESCALIER",
     "Chute radio", "Toilettage", "   "}

ConfigsSession ==
    UNION {LexiquesDe(f) : f \in FichiersSession \cup {FichiersSansRegex}}

\* every lexicon and every label of the model
ConfigsModele == {d.config : d \in Deploiements} \cup ConfigsSession

-----------------------------------------------------------------------------
(* PennyPetConfig.__init__: pennypet_config.py lines 17-67                 *)
(*                                                                         *)
(* A file of the configuration directory is in one of these states:        *)
(*   "complet"      readable, with rows and every column                   *)
(*   "absent"       path.exists() is False                                 *)
(*   "illisible"    pd.read_csv / json.load raises                         *)
(*   "inaccessible" path.exists() itself raises (PermissionError)          *)
(* and, for the CSV files read by _load_csv_regex:                         *)
(*   "sans_ligne"   a header and no row                                    *)
(*   "sans_regex"   no 'Regex OCR' / regex_pattern column                  *)
(*   "rompu"        numbers in the label column and no code_acte column:   *)
(*                  df["field_label"].str.upper() raises (line 143)        *)
(* A file is named after the attribute it is loaded into.                  *)

FichiersCsvRegex ==
    {"actes_df", "calculs_codes_df", "infos_financieres_df", "metadonnees_df",
     "parties_benef_df", "suivi_sla_df"}
FichiersConfig ==
    FichiersCsvRegex
    \cup {"medicaments_df", "regles_pc_df", "mapping_amv", "formules",
          "glossaire_pharmaceutique"}

DefautsDe(f) ==
    IF f \in FichiersCsvRegex
    THEN {"absent", "illisible", "inaccessible", "sans_ligne", "sans_regex",
          "rompu"}
    ELSE {"absent", "illisible", "inaccessible"}

\* the columns _load_csv_regex and _init_empty_config give an empty table
ColonnesCsvRegex == {"field_label", "regex_pattern", "pattern", "code_acte"}

\* the rows of a readable regex file
LignesFichier(f) ==
    IF f = "actes_df" THEN FichiersSains.actes
    ELSE IF f = "calculs_codes_df" THEN FichiersSains.calculs_codes
    ELSE <<LigneRegex("Total", "total", "TOTAL")>>

\* pd.read_csv on a regex file (header already renamed, lines 117-127)
LireCsvRegex(f, etat) ==
    [colonnes |-> IF etat = "sans_regex" THEN {"field_label", "code_acte"}
                  ELSE IF etat = "rompu" THEN {"field_label", "regex_pattern"}
                  ELSE {"field_label", "regex_pattern", "code_acte"},
     lignes   |-> IF etat = "sans_ligne" THEN <<>> ELSE LignesFichier(f)]

\* lines 99-108: pd.DataFrame() for a missing or unreadable file
load_csv(etat, lu) == IF etat \in {"absent", "illisible"} THEN DfVide ELSE lu

\* line 159: df["pattern"] = None
SansPattern(lignes) ==
    [i \in 1..Len(lignes) |->
        [field_label |-> lignes[i].field_label, pattern |-> NONE,
         code_acte   |-> lignes[i].code_acte]]

load_csv_regex_sans_colonnes(etat, df) ==
    IF DfEmpty(df) THEN DfVide
    ELSE IF etat = "rompu"
    THEN [colonnes |-> ColonnesCsvRegex, lignes |-> <<>>]
    ELSE [colonnes |-> df.colonnes \cup {"field_label", "code_acte", "pattern"},
          lignes   |-> IF "regex_pattern" \in df.colonnes
                       THEN load_csv_regex(df.lignes)
                       ELSE SansPattern(df.lignes)]

\* lines 110-165, on the DataFrame _load_csv returned
load_csv_regex_df(etat, df) ==
    IF DfEmpty(df) THEN [colonnes |-> ColonnesCsvRegex, lignes |-> <<>>]
    ELSE IF etat = "rompu"
    THEN \* the handler of line 161
         [colonnes |-> ColonnesCsvRegex, lignes |-> <<>>]
    ELSE [colonnes |-> df.colonnes \cup {"field_label", "code_acte", "pattern"},
          lignes   |-> IF "regex_pattern" \in df.colonnes
                       THEN load_csv_regex(df.lignes)
                       ELSE SansPattern(df.lignes)]

\* lines 81-97
load_json_df(etat) ==
    IF etat \in {"absent", "illisible"} THEN DfVide
    ELSE [colonnes |-> {"nom"}, lignes |-> <<[nom |-> "Metacam"]>>]

\* lines 167-188
load_regles(etat) ==
    IF etat \in {"absent", "illisible"} THEN DfVide ELSE TableLexique

\* lines 69-79: the dict of the file, {} for a missing or unreadable file
load_json(etat, lu) == IF etat \in {"absent", "illisible"} THEN {} ELSE lu

\* lines 190-218, from the state of the file
load_glossaire(etat) ==
    IF etat \in {"absent", "illisible"} THEN {}
    ELSE load_glossaire_pharmaceutique(FichiersSains.glossaire)

\* one of the eleven loads of lines 32-46
ChargerAttribut(f, etat) ==
    IF f \in FichiersCsvRegex
    THEN load_csv_regex_df(etat, load_csv(etat, LireCsvRegex(f, etat)))
    ELSE IF f = "medicaments_df" THEN load_json_df(etat)
    ELSE IF f = "regles_pc_df" THEN load_regles(etat)
    ELSE IF f = "mapping_amv" THEN load_json(etat, FichiersSains.mapping_amv)
    ELSE IF f = "formules" THEN load_json(etat, FormulesConnues)
    ELSE load_glossaire(etat)

\* lines 54-67
init_empty_config ==
    [f \in FichiersConfig |->
        IF f = "actes_df" THEN [colonnes |-> ColonnesCsvRegex, lignes |-> <<>>]
        ELSE IF f \in {"mapping_amv", "formules", "glossaire_pharmaceutique"}
        THEN {}
        ELSE DfVide]

\* lines 17-52: the attributes after __init__.  An exception that leaves a
\* loader is caught at line 50, whichever load raised it.
PennyPetConfigInit(dir) ==
    IF ~ dir.existe THEN init_empty_config
    ELSE IF \E f \in FichiersConfig : dir.etat[f] = "inaccessible"
    THEN init_empty_config
    ELSE [f \in FichiersConfig |-> ChargerAttribut(f, dir.etat[f])]

\* the states of the files of a directory, with the files of D defective
EtatsFichiers(D) ==
    {[f \in FichiersConfig |-> IF f \in D THEN d[f] ELSE "complet"] :
        d \in {e \in [D -> UNION {DefautsDe(f) : f \in D}] :
                  \A f \in D : e[f] \in DefautsDe(f)}}

\* the directories of the model: none, or one with at most MaxDefauts
\* defective files
Dossiers ==
    {[existe |-> FALSE, etat |-> [f \in FichiersConfig |-> "absent"]]}
    \cup {[existe |-> TRUE, etat |-> e] :
             e \in UNION {EtatsFichiers(D) :
                            D \in {S \in SUBSET FichiersConfig :
                                      Cardinality(S) <= MaxDefauts}}}

-----------------------------------------------------------------------------
(* normalise_acte, normalise_medicament and normalise *)

\* the cache: a dict from keys to a code or None
CacheVide == [k \in {} |-> NONE]
CacheAvecPartout(ca, cle, code) ==
    [k \in (DOMAIN ca) \cup {cle} |-> code]

CacheAvec(ca, cle, code) ==
    [k \in (DOMAIN ca) \cup {cle} |-> IF k = cle THEN code ELSE ca[k]]

\* re.search(rf"(?<!\w){re.escape(terme)}(?!\w)", texte), line 445
MotEntier(texte, terme) ==
    \E i \in 0..(Len(texte) - Len(terme)) :
        /\ SubSeq(texte, i + 1, i + Len(terme)) = terme
        /\ (i = 0 \/ ~ EstMot(Ch(texte, i)))
        /\ (i + Len(terme) = Len(texte) \/ ~ EstMot(Ch(texte, i + Len(terme) + 1)))

\* pattern.search(cle) for a row of actes_df, lines 431-434: the compiled
\* pattern of a row is a literal searched case-insensitively, or None
MotifTrouve(motif, cle) == motif # NONE /\ Contient(Lower(cle), Lower(motif))

\* lines 428-439: the first row whose pattern matches
LignesActesTrouvees(cfg, cle) ==
    {i \in 1..Len(cfg.actes_df) : MotifTrouve(cfg.actes_df[i].pattern, cle)}
\* lines 441-450: the first act term found in the normalised label
TermesActesTrouves(cfg, libelle_norm) ==
    {i \in 1..Len(cfg.termes_actes) :
        MotEntier(libelle_norm, normaliser_accents(cfg.termes_actes[i]))}
PremierDernier(S) == CHOOSE i \in S : \A j \in S : i >= j

Premier(S) == CHOOSE i \in S : \A j \in S : i <= j

\* lines 421-465: the classification written to the cache and returned
ClasserActe(cfg, libelle_brut, cle) ==
    LET libelle_norm == normaliser_accents(libelle_brut)
    IN  IF detecter_patterns_actes(libelle_brut) THEN "ACTES"
        ELSE IF LignesActesTrouvees(cfg, cle) # {}
        THEN cfg.actes_df[Premier(LignesActesTrouvees(cfg, cle))].code_acte
        ELSE IF TermesActesTrouves(cfg, libelle_norm) # {}
        THEN Upper(cfg.termes_actes[Premier(TermesActesTrouves(cfg, libelle_norm))])
        ELSE NONE

\* the labels of the model: what line 898 makes of the cleaned texts
LibellesModele ==
    {Strip(TableNettoyerChaine[s]) : s \in ChainesLLM} \cup LibellesSession

\* line 417: the cache key, evaluated once for each label of the model
CleCache(libelle_brut) == Strip(Upper(libelle_brut))
TableCleCache == [l \in LibellesModele |-> CleCache(l)]
CleCacheMemo(libelle_brut) == TableCleCache[libelle_brut]

\* ClasserActe, evaluated once for each configuration and label of the model
TableClasserActe ==
    [cfg \in ConfigsModele, l \in LibellesModele |->
        ClasserActe(cfg, l, CleCache(l))]
ClasserActeMemo(cfg, libelle_brut) == TableClasserActe[cfg, libelle_brut]

ParCacheEcrase(ca, cle, code) ==
    [code |-> code, cache |-> CacheAvec(ca, cle, code)]

\* lines 418-419 and 464-465 (481-482 and 526-527): the code of the cache
\* under the key, or else the classification, which is written to the cache
ParCache(ca, cle, code) ==
    IF cle \in DOMAIN ca THEN [code |-> ca[cle], cache |-> ca]
    ELSE [code |-> code, cache |-> CacheAvec(ca, cle, code)]

\* lines 411-469
normalise_acte(cfg, ca, libelle_brut) ==
    IF libelle_brut = "" THEN [code |-> NONE, cache |-> ca]
    ELSE ParCache(ca, CleCacheMemo(libelle_brut),
                  ClasserActeMemo(cfg, libelle_brut))

\* lines 488-510: glossary and AMV-mapping steps
GlossaireTrouve(cfg, libelle_norm) ==
    \/ libelle_norm \in cfg.glossaire_normalise
    \/ \E terme_norm \in cfg.glossaire_normalise :
          \/ Contient(libelle_norm, terme_norm)
          \/ Contient(terme_norm, libelle_norm)
          \/ \E i \in 1..Len(Split(terme_norm)) :
                /\ Len(Split(terme_norm)[i]) > 3
                /\ Contient(libelle_norm, Split(terme_norm)[i])
MappingTrouve(cfg, libelle_norm) ==
    \E e \in cfg.mapping_amv :
        /\ \/ Contient(libelle_norm, Lower(e.cle))
           \/ Contient(Lower(e.cle), libelle_norm)
        /\ Contient(Lower(e.valeur), "medicament")

\* lines 481-527: the classification written to the cache and returned
ClasserMedicament(cfg, libelle_brut) ==
    LET libelle_norm == normaliser_accents(libelle_brut)
    IN  IF \/ detecter_patterns_medicaments(libelle_brut)
           \/ GlossaireTrouve(cfg, libelle_norm)
           \/ MappingTrouve(cfg, libelle_norm)
        THEN "MEDICAMENTS"
        ELSE NONE

\* ClasserMedicament, evaluated once for each configuration and label
TableClasserMedicament ==
    [cfg \in ConfigsModele, l \in LibellesModele |-> ClasserMedicament(cfg, l)]
ClasserMedicamentMemo(cfg, libelle_brut) ==
    TableClasserMedicament[cfg, libelle_brut]

\* lines 471-531
normalise_medicament(cfg, ca, libelle_brut) ==
    IF libelle_brut = "" THEN [code |-> NONE, cache |-> ca]
    ELSE ParCache(ca, CleCacheMemo(libelle_brut),
                  ClasserMedicamentMemo(cfg, libelle_brut))

\* line 543: the keywords that give the medication classifier priority
IndicesMedicament == {"mg", "ml", "vaccin", "injection"}
PrioriteMedicament(libelle_brut) ==
    LET bas == Lower(libelle_brut)
    IN  \E p \in IndicesMedicament : Contient(bas, p)
TablePrioriteMedicament == [l \in LibellesModele |-> PrioriteMedicament(l)]
PrioriteMedicamentMemo(libelle_brut) == TablePrioriteMedicament[libelle_brut]

\* line 562: the label itself, when no classifier knows it
CodeRepli(libelle_brut) == Upper(Strip(libelle_brut))
TableCodeRepli == [l \in LibellesModele |-> CodeRepli(l)]
CodeRepliMemo(libelle_brut) == TableCodeRepli[libelle_brut]

\* lines 544, 548, 553, 557: one classifier asked for the label
Classifieur(medicament, cfg, ca, libelle_brut) ==
    IF medicament THEN normalise_medicament(cfg, ca, libelle_brut)
    ELSE normalise_acte(cfg, ca, libelle_brut)

\* lines 549-550, 558-562: after the answer deux of the second classifier
ApresSecond(libelle_brut, deux) ==
    IF Vrai(deux.code) THEN deux
    ELSE [code |-> CodeRepliMemo(libelle_brut), cache |-> deux.cache]

\* lines 545-548, 554-557: after the answer un of the first classifier
ApresPremier(priorite, cfg, libelle_brut, un) ==
    IF Vrai(un.code) THEN un
    ELSE ApresSecond(libelle_brut,
             Classifieur(~ priorite, cfg, un.cache, libelle_brut))

\* lines 533-566
normalise(cfg, ca, libelle_brut) ==
    IF libelle_brut = "" THEN [code |-> NONE, cache |-> ca]
    ELSE ApresPremier(PrioriteMedicamentMemo(libelle_brut), cfg, libelle_brut,
             Classifieur(PrioriteMedicamentMemo(libelle_brut), cfg, ca,
                         libelle_brut))

-----------------------------------------------------------------------------
(* process_facture_pennypet: lines 872-978 *)

\* line 892
MotsAccident ==
    {"accident", "urgent", "urgence", "fract", "trauma", "traumatisme",
     "blessure"}

\* line 908
EstAccident(libelle) ==
    LET bas == Lower(libelle) IN \E mot \in MotsAccident : Contient(bas, mot)
TableEstAccident == [l \in LibellesModele |-> EstAccident(l)]
EstAccidentMemo(libelle) == TableEstAccident[libelle]

\* line 898
LibelleLigne(ligne) ==
    Strip(IF Vrai(ligne.code_acte) THEN ligne.code_acte
          ELSE IF ligne.description = NONE THEN ""
          ELSE ligne.description)

LigneIgnoreeNegatif(montant) == montant < 0

\* lines 901-902: a line without amount is ignored
LigneIgnoree(montant) == montant <= 0

\* lines 916-921
MajStats(st, est_medicament) ==
    IF est_medicament
    THEN [st EXCEPT !.lignes_traitees = @ + 1,
                       !.medicaments_detectes = @ + 1]
    ELSE [st EXCEPT !.lignes_traitees = @ + 1,
                       !.actes_detectes = @ + 1]

\* lines 923-938
ResultatLigne(ligne, libelle, montant, code_norm, est_acc, remb, formule) ==
    [ligne |-> [code_acte      |-> libelle,
                description    |-> IF ligne.description = NONE THEN libelle
                                   ELSE ligne.description,
                montant_ht     |-> montant,
                est_medicament |-> (code_norm = "MEDICAMENTS"),
                code_normalise |-> code_norm],
     est_accident         |-> est_acc,
     taux_remboursement   |-> remb.taux,
     montant_rembourse    |-> remb.remb_final,
     montant_reste_charge |-> remb.reste,
     formule_appliquee    |-> formule,
     erreur               |-> remb.erreur]

SurExceptionSansCompte(etat) == etat

\* lines 942-945: the handler of an exception raised by one line
SurException(etat) ==
    [etat EXCEPT !.stats.erreurs_normalisation = @ + 1]

LigneClasseeAvecMemoire(df, formule, ligne, libelle, faute, etat, norm) ==
    IF faute THEN SurException([etat EXCEPT !.cache = norm.cache])
    ELSE [resultats |-> Append(etat.resultats,
                           ResultatLigne(ligne, libelle, ligne.montant_ht,
                               norm.code, EstAccidentMemo(libelle),
                               calculer_remboursement(df,
                                   ligne.montant_ht
                                      \div (etat.stats.lignes_traitees + 1),
                                   norm.code, formule,
                                   EstAccidentMemo(libelle)),
                               formule)),
          stats     |-> MajStats(etat.stats, norm.code = "MEDICAMENTS"),
          cache     |-> norm.cache]

\* lines 905-945, the rest of a turn of the loop.  etat holds resultats,
\* self.stats and the normaliser's cache.  faute: an exception is raised
\* while the line is priced (after the normalisation of line 905, before the
\* statistics of line 917).
LigneClassee(df, formule, ligne, libelle, faute, etat, norm) ==
    IF faute THEN SurException([etat EXCEPT !.cache = norm.cache])
    ELSE [resultats |-> Append(etat.resultats,
                           ResultatLigne(ligne, libelle, ligne.montant_ht,
                               norm.code, EstAccidentMemo(libelle),
                               calculer_remboursement(df, ligne.montant_ht,
                                   norm.code, formule,
                                   EstAccidentMemo(libelle)),
                               formule)),
          stats     |-> MajStats(etat.stats, norm.code = "MEDICAMENTS"),
          cache     |-> norm.cache]

\* lines 896-945, one turn of the loop, from the label of line 898 and the
\* test of line 901 to the classification norm of line 905
TraiterLigne(cfg, df, formule, ligne, faute, etat) ==
    IF LigneIgnoree(ligne.montant_ht) THEN etat
    ELSE LigneClassee(df, formule, ligne, LibelleLigne(ligne), faute, etat,
             normalise(cfg, etat.cache, LibelleLigne(ligne)))

\* line 895: the loop over data["lignes"]; fautes is the set of the indices
\* of the lines whose processing raises
RECURSIVE BoucleLignes(_, _, _, _, _, _, _)
BoucleLignes(cfg, df, formule, lignes, fautes, i, etat) ==
    IF i > Len(lignes) THEN etat
    ELSE BoucleLignes(cfg, df, formule, lignes, fautes, i + 1,
             TraiterLigne(cfg, df, formule, lignes[i], i \in fautes, etat))

\* lines 948-950: the sums over resultats
RECURSIVE SommeMontantHT(_)
SommeMontantHT(resultats) ==
    IF resultats = <<>> THEN 0
    ELSE Head(resultats).ligne.montant_ht + SommeMontantHT(Tail(resultats))
RECURSIVE SommeRembourse(_)
SommeRembourse(resultats) ==
    IF resultats = <<>> THEN 0
    ELSE Head(resultats).montant_rembourse + SommeRembourse(Tail(resultats))

TotalFactureAnnonce(resultats, dn) == dn.montant_total

\* line 948; data is the extracted data, which the sum does not read
TotalFacture(resultats, dn) == SommeMontantHT(resultats)
\* line 949
TotalRembourse(resultats, dn) == SommeRembourse(resultats)

\* round(x, 2): the nearest whole cent.  An amount that ends on a half cent
\* has no exact binary representation and the sum carries its error, so
\* either neighbouring cent may come out.
Round2(x) == IF x % 2 = 0 THEN {x} ELSE {x - 1, x + 1}

\* lines 955-969; taux_remboursement_global, informations_client,
\* mapping_stats and raw_llm_response are not modelled
ResultatSucces(resultats, total_facture, total_rembourse, reste_a_charge, st, formule) ==
    [success          |-> TRUE,
     lignes           |-> resultats,
     resume           |-> [total_facture   |-> total_facture,
                           total_rembourse |-> total_rembourse,
                           reste_a_charge  |-> reste_a_charge],
     error            |-> NONE,
     statistiques     |-> st,
     formule_utilisee |-> formule]

\* lines 971-978
ResultatEchec(erreur, st, formule) ==
    [success          |-> FALSE,
     lignes           |-> <<>>,
     resume           |-> AUCUN,
     error            |-> erreur,
     statistiques     |-> st,
     formule_utilisee |-> formule]

-----------------------------------------------------------------------------
(* Inputs of the calculator *)

\* formula names a caller may pass: the four known ones, a differently-cased
\* and a padded spelling of one of them, and a name of no formula
FormulesAppel ==
    FormulesConnues \cup {"premium", " INTEGRAL_PLUS", "CONFORT"}

CodesAppel == {"CONSULTATION", "MEDICAMENTS"}

PasEuros(k) == Euro(250 * k)

\* a grid up to 2500 EUR, the neighbours (one cent away) of every threshold
\* of the formulas, some small amounts and a negative one
MontantsAppel ==
    {PasEuros(k) : k \in 0..MaxPas}
    \cup {Euro(e) + Cent(d) : e \in {500, 1000, 2000}, d \in {-1, 1}}
    \cup {Cent(1), Cent(4501), Euro(100), Euro(300), Euro(800), Euro(1200)}
    \cup {0 - Euro(20)}

\* rows a rule file may hold
ReglesPossibles ==
    {[formule |-> "premium", code_acte |-> "ALL",
      actes_couverts |-> {"CONSULTATION", "MEDICAMENTS"},
      type_couverture |-> "ACCIDENT_SEULEMENT",
      taux_remboursement |-> 100, plafond_annuel |-> Euro(500)],
     [formule |-> "CONFORT", code_acte |-> "CONSULTATION",
      actes_couverts |-> {},
      type_couverture |-> "ACCIDENT_MALADIE",
      taux_remboursement |-> 50, plafond_annuel |-> Euro(200)],
     [formule |-> "CONFORT", code_acte |-> NaN,
      actes_couverts |-> {"MEDICAMENTS"},
      type_couverture |-> "ACCIDENT_MALADIE",
      taux_remboursement |-> 100, plafond_annuel |-> Euro(1000)],
     [formule |-> "INTEGRAL", code_acte |-> "CONSULTATION",
      actes_couverts |-> {},
      type_couverture |-> "ACCIDENT_MALADIE",
      taux_remboursement |-> 0, plafond_annuel |-> 0]}

\* column sets of a rule file: complete, without the cap column, without the
\* coverage-type column, without the rate column
ColonnesPossibles ==
    {ColonnesRegles,
     ColonnesRegles \ {"plafond_annuel"},
     ColonnesRegles \ {"type_couverture"},
     ColonnesRegles \ {"taux_remboursement"}}

TablesRegles ==
    {DfVide} \cup
    {[colonnes |-> c, lignes |-> l] :
        c \in ColonnesPossibles, l \in SeqMax(ReglesPossibles, MaxRegles)}

-----------------------------------------------------------------------------
(* Specification of the calculator: every call of calculer_remboursement *)

\* no PennyPetConfig is being constructed, no chat call is being made
SansConfig ==
    config_dir = AUCUN /\ pennypet_config = AUCUN /\ pc_config = "fini"
SansChat ==
    /\ retries = 0 /\ attempt = 0 /\ last_exception = NONE
    /\ chat_pc = "retour" /\ chat_out = AUCUN /\ chat_journal = <<>>

\* PennyPetProcessor.__init__ (lines 594-637) with no call made yet
ProcesseurNeuf(cfg, cl) ==
    /\ config = cfg
    /\ clients = cl
    /\ cache = CacheVide
    /\ stats = StatsZero
    /\ pc = "idle"
    /\ appel = AUCUN
    /\ data = AUCUN
    /\ res = AUCUN

InitCalc ==
    /\ regles_pc_df \in TablesRegles
    /\ ProcesseurNeuf(ConfigVide, [qwen |-> TRUE, mistral |-> TRUE])
    /\ calc_in \in [montant : MontantsAppel, code_acte : CodesAppel,
                    formule : FormulesAppel, est_accident : BOOLEAN]
    /\ calc_out = AUCUN
    /\ calc_pc = "appel"
    /\ journal = AUCUN
    /\ SansConfig /\ SansChat

CalculerRemboursement ==
    /\ calc_pc = "appel"
    /\ calc_out' = calculer_remboursement(regles_pc_df, calc_in.montant,
                       calc_in.code_acte, calc_in.formule, calc_in.est_accident)
    /\ calc_pc' = "retour"
    /\ UNCHANGED <<regles_pc_df, vars_proc, calc_in, journal, vars_config,
                   vars_chat>>

NextCalc == CalculerRemboursement

SpecCalc == InitCalc /\ [][NextCalc]_vars

-----------------------------------------------------------------------------
(* Properties of the calculator (SpecCalc) *)

\* the call of calculer_remboursement has returned
CalcRetourne == calc_pc = "retour" /\ calc_out # AUCUN

\* the cap of each of the four formulas, in euros
PlafondFormule(formule) ==
    IF formule = "START" THEN 0
    ELSE IF formule = "PREMIUM" THEN 500
    ELSE 1000

\* C1: for each of the four formulas, every amount a >= 0, every code and
\* either accident flag, the reimbursement is at most the amount and at most
\* the cap of the formula (0, 500, 1000, 1000 EUR).
C1_RembourseBorne ==
    (CalcRetourne /\ calc_in.formule \in FormulesConnues /\ calc_in.montant >= 0)
    => /\ calc_out.remb_final <= calc_in.montant
       /\ calc_out.remb_final <= Euro(PlafondFormule(calc_in.formule))

\* C1 witness: an amount above 2000 EUR under INTEGRAL, held at the cap
C1_Temoin ==
    /\ CalcRetourne
    /\ calc_in.formule = "INTEGRAL"
    /\ calc_in.montant > Euro(2000)
    /\ calc_out.remb_final = Euro(1000)

\* C2: the exact reimbursement of each formula: 0 for START; min(a, 500) for
\* PREMIUM on an accident and 0 otherwise; min(a/2, 1000) for INTEGRAL;
\* min(a, 1000) for INTEGRAL_PLUS; and for START, INTEGRAL and INTEGRAL_PLUS
\* the result does not depend on the accident flag.
C2_ValeursExactes ==
    (CalcRetourne /\ calc_in.montant >= 0)
    => LET a == calc_in.montant
           r == calc_out.remb_final
       IN  /\ calc_in.formule = "START" => r = 0
           /\ (calc_in.formule = "PREMIUM" /\ calc_in.est_accident)
                 => ((a <= Euro(500) /\ r = a) \/ (a > Euro(500) /\ r = Euro(500)))
           /\ (calc_in.formule = "PREMIUM" /\ ~ calc_in.est_accident) => r = 0
           /\ calc_in.formule = "INTEGRAL"
                 => ((a <= Euro(2000) /\ 2 * r = a)
                        \/ (a > Euro(2000) /\ r = Euro(1000)))
           /\ calc_in.formule = "INTEGRAL_PLUS"
                 => ((a <= Euro(1000) /\ r = a)
                        \/ (a > Euro(1000) /\ r = Euro(1000)))
           /\ calc_in.formule \in {"START", "INTEGRAL", "INTEGRAL_PLUS"}
                 => calc_out = calculer_remboursement(regles_pc_df, a,
                                   calc_in.code_acte, calc_in.formule,
                                   ~ calc_in.est_accident)

\* C2 witness: 300 EUR under INTEGRAL_PLUS, paid in full
C2_Temoin ==
    /\ CalcRetourne
    /\ calc_in.formule = "INTEGRAL_PLUS"
    /\ calc_in.montant = Euro(300)
    /\ calc_out.remb_final = Euro(300)

\* C3: every returned dict (formula, rule-table, unknown-formula, no-rule and
\* error results) has montant_ht equal to the amount passed and
\* reste = montant_ht - remb_final.
C3_ResteCoherent ==
    CalcRetourne
    => /\ calc_out.montant_ht = calc_in.montant
       /\ calc_out.reste = calc_out.montant_ht - calc_out.remb_final

\* C3 witness: a rule of the table applied and held at its plafond_annuel
C3_Temoin ==
    /\ CalcRetourne
    /\ calc_out.regle_source = "dataframe"
    /\ calc_out.remb_final > 0
    /\ calc_out.remb_final * 100 < calc_in.montant * calc_out.taux
    /\ calc_out.reste = calc_in.montant - calc_out.remb_final

\* C4: a formula name that is not one of the four (a differently-cased or
\* padded spelling included) gets zero coverage, remb_final = 0 and
\* reste = montant, whether or not a rule table is loaded.
C4_FormuleInconnueSansCouverture ==
    (CalcRetourne /\ calc_in.formule \notin FormulesConnues
        /\ calc_in.montant >= 0)
    => /\ calc_out.remb_final = 0
       /\ calc_out.reste = calc_in.montant

\* the call went to the rule-table lookup (line 796)
TableConsultee ==
    /\ CalcRetourne
    /\ calc_in.formule \notin FormulesConnues
    /\ ~ DfEmpty(regles_pc_df)

\* a row that qualifies for the call as the specification words it: same
\* formula; covered code equal to the code, or ALL with the code among the
\* covered acts; accident-and-illness, or accident-only on an accident
RegleQualifiee(r, colonnes) ==
    /\ {"formule", "code_acte", "actes_couverts", "type_couverture"}
          \subseteq colonnes
    /\ r.formule = calc_in.formule
    /\ \/ r.code_acte = calc_in.code_acte
       \/ (r.code_acte = "ALL" /\ calc_in.code_acte \in r.actes_couverts)
    /\ \/ r.type_couverture = "ACCIDENT_MALADIE"
       \/ (r.type_couverture = "ACCIDENT_SEULEMENT" /\ calc_in.est_accident)

ReglesQualifiees ==
    {i \in 1..Len(regles_pc_df.lignes) :
        RegleQualifiee(regles_pc_df.lignes[i], regles_pc_df.colonnes)}

\* C18: the rule-table lookup uses the first row, in table order, with the
\* requested formula, with the normalised code (or ALL and the code among its
\* covered acts) and with a coverage type that applies; when no row
\* qualifies it returns remb_final = 0 with an 'erreur' note.
C18_PremiereRegleQualifiee ==
    TableConsultee
    => IF ReglesQualifiees = {}
       THEN calc_out.remb_final = 0 /\ calc_out.erreur # NONE
       ELSE calc_out =
               ResultatRegle(regles_pc_df.lignes[Premier(ReglesQualifiees)],
                             "plafond_annuel" \in regles_pc_df.colonnes,
                             calc_in.montant, calc_in.formule)

\* C19: under PREMIUM, for every amount a >= 0, the rate reported is 100
\* exactly when est_accident is true and remb_final > 0, and 0 otherwise; the
\* rate reported is 0 for START, 50 for INTEGRAL and 100 for INTEGRAL_PLUS.
C19_TauxRapporte ==
    (CalcRetourne /\ calc_in.montant >= 0)
    => /\ calc_in.formule = "PREMIUM"
            => calc_out.taux =
                  (IF calc_in.est_accident /\ calc_out.remb_final > 0
                   THEN 100 ELSE 0)
       /\ calc_in.formule = "START" => calc_out.taux = 0
       /\ calc_in.formule = "INTEGRAL" => calc_out.taux = 50
       /\ calc_in.formule = "INTEGRAL_PLUS" => calc_out.taux = 100

-----------------------------------------------------------------------------
(* Specification of the processor: a call of process_facture_pennypet *)

InitProc ==
    /\ \E d \in Deploiements, cl \in ClientsPossibles :
          /\ regles_pc_df = d.regles
          /\ ProcesseurNeuf(d.config, cl)
    /\ calc_in = AUCUN
    /\ calc_out = AUCUN
    /\ calc_pc = "retour"
    /\ journal = AUCUN
    /\ SansConfig /\ SansChat

\* the lines of data["lignes"] that reach the normalisation
IndicesTraites(lignes) ==
    {i \in 1..Len(lignes) : ~ LigneIgnoree(lignes[i].montant_ht)}

\* lines 872-978 for one call: what it returns and the state it leaves
\* (self.stats, the cache of the normaliser), with the response the LLM
\* gives and the lines whose processing raises
process_facture_pennypet(formule, llm_provider, reponse) ==
    \E ext \in {extract_lignes_from_image(StatsZero, clients,
                                          llm_provider, reponse)} :
      IF ext.leve
      THEN /\ res' = ResultatEchec(ext.erreur, ext.stats, formule)
           /\ stats' = ext.stats
           /\ data' = AUCUN
           /\ appel' = [formule |-> formule, llm_provider |-> llm_provider,
                        reponse |-> reponse, fautes |-> {}]
           /\ cache' = cache
      ELSE \E fautes \in SUBSET IndicesTraites(ext.data.lignes) :
           \E fin \in {BoucleLignes(config, regles_pc_df, formule,
                           ext.data.lignes, fautes, 1,
                           [resultats |-> <<>>, stats |-> ext.stats,
                            cache |-> cache])} :
           \E total_facture \in
                  Round2(TotalFacture(fin.resultats, ext.data)),
              total_rembourse \in
                  Round2(TotalRembourse(fin.resultats, ext.data)),
              reste_a_charge \in
                  Round2(TotalFacture(fin.resultats, ext.data)
                         - TotalRembourse(fin.resultats, ext.data)) :
             /\ res' = ResultatSucces(fin.resultats, total_facture,
                           total_rembourse, reste_a_charge, fin.stats,
                           formule)
             /\ stats' = fin.stats
             /\ cache' = fin.cache
             /\ data' = ext.data
             /\ appel' = [formule |-> formule,
                          llm_provider |-> llm_provider,
                          reponse |-> reponse, fautes |-> fautes]

\* the first call made on a processor
ProcessFacture ==
    /\ pc = "idle"
    /\ \E formule \in FormulesFacture, llm_provider \in Fournisseurs,
          reponse \in ReponsesLLM :
          process_facture_pennypet(formule, llm_provider, reponse)
    /\ pc' = "done"
    /\ UNCHANGED <<regles_pc_df, config, clients, vars_calc, journal,
                   vars_config, vars_chat>>

NextProc == ProcessFacture

SpecProc == InitProc /\ [][NextProc]_vars

-----------------------------------------------------------------------------
(* Specification of a processor in use: calls of process_facture_pennypet  *)
(* made one after another on the same instance                             *)
(*                                                                         *)
(* A result holds self.stats itself, not a copy.  journal.tas is the heap  *)
(* of the statistics dicts: each dict has an identity and a value;         *)
(* journal.self_stats is the dict self.stats refers to; journal.rendus     *)
(* holds, for each call, the dict its result refers to and its lines.      *)

\* the invoices of a processor in use
ItemsSuite ==
    {Item("Consultation", "Consultation generale", Nombre(Euro(300))),
     Item("Vaccin rage 10ml", "Vaccin  (rappel) + soin", Nombre(Cent(4501))),
     Item("Radio", "Radio thorax", Texte)}
ReponsesSuite ==
    {[leve |-> TRUE, contenu |-> Contenu("vide", "absent", <<>>)]}
    \cup {[leve |-> FALSE, contenu |-> Contenu("json", "liste", l)] :
             l \in SeqMax(ItemsSuite, 2)}

InitSuite ==
    /\ regles_pc_df = TableLexique
    /\ ProcesseurNeuf(ConfigLexique, [qwen |-> TRUE, mistral |-> FALSE])
    /\ calc_in = AUCUN
    /\ calc_out = AUCUN
    /\ calc_pc = "retour"
    /\ journal = [n |-> 0, tas |-> [i \in {0} |-> StatsZero],
                  self_stats |-> 0, rendus |-> <<>>]
    /\ SansConfig /\ SansChat

StatsRemisesAZero(j) == j.self_stats
\* lines 878-885: self.stats = {...} binds self.stats to a new dict
NouvellesStats(j) == j.n + 1

\* the heap with the value v written in the dict i
TasAvec(tas, i, v) ==
    [k \in (DOMAIN tas) \cup {i} |-> IF k = i THEN v ELSE tas[k]]

\* one more call on the processor
FactureSuivante ==
    /\ journal.n < MaxFactures
    /\ \E formule \in {"INTEGRAL", "premium"}, llm_provider \in Fournisseurs,
          reponse \in ReponsesSuite :
          process_facture_pennypet(formule, llm_provider, reponse)
    /\ journal' =
          [n          |-> journal.n + 1,
           tas        |-> TasAvec(journal.tas, NouvellesStats(journal), stats'),
           self_stats |-> NouvellesStats(journal),
           rendus     |-> Append(journal.rendus,
                              [success      |-> res'.success,
                               lignes       |-> res'.lignes,
                               statistiques |-> NouvellesStats(journal)])]
    /\ pc' = "done"
    /\ UNCHANGED <<regles_pc_df, config, clients, vars_calc, vars_config,
                   vars_chat>>

NextSuite == FactureSuivante

SpecSuite == InitSuite /\ [][NextSuite]_vars

\* the number of lines of a result classed as medication
NombreMedicaments(lignes) ==
    Cardinality({i \in 1..Len(lignes) :
                    lignes[i].ligne.code_normalise = "MEDICAMENTS"})

\* C29: after every successful call of a sequence of calls on one processor
\* the statistics returned describe that call only: lignes_traitees is the
\* number of lines of that result and is medicaments_detectes +
\* actes_detectes, medicaments_detectes is the number of its lines with the
\* code 'MEDICAMENTS'; and a later call does not change the statistics
\* returned by an earlier call.
C29_StatistiquesDeLAppel ==
    \A k \in 1..Len(journal.rendus) :
        journal.rendus[k].success
        => /\ journal.tas[journal.rendus[k].statistiques].lignes_traitees
                = Len(journal.rendus[k].lignes)
           /\ journal.tas[journal.rendus[k].statistiques].lignes_traitees
                = journal.tas[journal.rendus[k].statistiques].medicaments_detectes
                  + journal.tas[journal.rendus[k].statistiques].actes_detectes
           /\ journal.tas[journal.rendus[k].statistiques].medicaments_detectes
                = NombreMedicaments(journal.rendus[k].lignes)

\* C29 witness: two successful calls on one processor, the first with a
\* medication among its two lines, the second with one line
C29_Temoin ==
    /\ Len(journal.rendus) = 2
    /\ journal.rendus[1].success /\ journal.rendus[2].success
    /\ Len(journal.rendus[1].lignes) = 2
    /\ NombreMedicaments(journal.rendus[1].lignes) = 1
    /\ Len(journal.rendus[2].lignes) = 1
    /\ journal.tas[journal.rendus[1].statistiques].lignes_traitees = 2
    /\ res.statistiques.lignes_traitees = 1

-----------------------------------------------------------------------------
(* Specification of the normaliser: the calls made on one instance *)

\* the normaliser of a new processor, built on one of the configurations
InitSession ==
    /\ \E f \in FichiersSession :
          /\ \E cfg \in LexiquesDe(f) :
                ProcesseurNeuf(cfg, [qwen |-> TRUE, mistral |-> TRUE])
          /\ journal = [n |-> 0, pur |-> TRUE, fichiers |-> f,
                        premiers |-> CacheVide]
    /\ regles_pc_df = DfVide
    /\ calc_in = AUCUN
    /\ calc_out = AUCUN
    /\ calc_pc = "retour"
    /\ SansConfig /\ SansChat

\* a call has returned r: the cache it leaves, what it returned, and the
\* code of the first normalise call made with each label
Retour(op, l, r) ==
    /\ cache' = r.cache
    /\ appel' = [op |-> op, libelle |-> l, cache_avant |-> cache]
    /\ res' = [code |-> r.code]
    /\ journal' = [journal EXCEPT
          !.n = @ + 1,
          !.pur = @ /\ op = "normalise",
          !.premiers = IF op = "normalise" /\ l \notin DOMAIN @
                       THEN [k \in (DOMAIN @) \cup {l} |->
                               IF k = l THEN r.code ELSE journal.premiers[k]]
                       ELSE @]
    /\ UNCHANGED <<regles_pc_df, config, clients, stats, pc, data, vars_calc,
                   vars_config, vars_chat>>

\* normaliseur.normalise(l)
AppelNormalise ==
    /\ journal.n < MaxAppels
    /\ \E l \in LibellesSession : Retour("normalise", l, normalise(config, cache, l))

\* normaliseur.normalise_acte(l)
AppelNormaliseActe ==
    /\ journal.n < MaxAppels
    /\ \E l \in LibellesSession :
          Retour("normalise_acte", l, normalise_acte(config, cache, l))

\* normaliseur.normalise_medicament(l)
AppelNormaliseMedicament ==
    /\ journal.n < MaxAppels
    /\ \E l \in LibellesSession :
          Retour("normalise_medicament", l,
                 normalise_medicament(config, cache, l))

NextSession ==
    \/ AppelNormalise
    \/ AppelNormaliseActe
    \/ AppelNormaliseMedicament

SpecSession == InitSession /\ [][NextSession]_vars

-----------------------------------------------------------------------------
(* Properties of the normaliser (SpecSession) *)

\* the last call made was op
Appele(op) == journal.n > 0 /\ appel.op = op
\* the last call found no entry for its label in the cache
SansEntree == CleCacheMemo(appel.libelle) \notin DOMAIN appel.cache_avant

\* C11: when the classifier normalise tries first finds no match, the steps
\* of the other classifier are evaluated: a label only the glossary steps
\* match comes back as MEDICAMENTS, a label only the act steps match comes
\* back as its act code.
C11_SecondClassifieurEvalue ==
    (Appele("normalise") /\ SansEntree)
    => /\ (/\ ~ PrioriteMedicamentMemo(appel.libelle)
           /\ ClasserActeMemo(config, appel.libelle) = NONE
           /\ ClasserMedicamentMemo(config, appel.libelle) # NONE)
          => res.code = "MEDICAMENTS"
       /\ (/\ PrioriteMedicamentMemo(appel.libelle)
           /\ ClasserMedicamentMemo(config, appel.libelle) = NONE
           /\ ClasserActeMemo(config, appel.libelle) # NONE)
          => res.code = ClasserActeMemo(config, appel.libelle)

\* the rows of the regex files in source order, actes_df first
LignesSources == journal.fichiers.actes \o journal.fichiers.calculs_codes
\* the regex of row i compiles and is found in the label
LigneCorrespond(i, libelle) ==
    /\ LignesSources[i].regex_pattern # ""
    /\ RegexValide(LignesSources[i].regex_pattern)
    /\ Contient(Lower(libelle), Lower(LignesSources[i].regex_pattern))
LignesCorrespondantes(libelle) ==
    {i \in 1..Len(LignesSources) : LigneCorrespond(i, libelle)}

\* C12: when several rows of the act table match the label, the act-table
\* step of normalise_acte returns the code of the earliest matching row in
\* source order, the rows of actes_df first.
C12_PremiereLigneGagne ==
    (/\ Appele("normalise_acte") /\ SansEntree
     /\ ~ detecter_patterns_actes(appel.libelle)
     /\ LignesCorrespondantes(appel.libelle) # {})
    => \E i \in LignesCorrespondantes(appel.libelle) :
          /\ \A j \in LignesCorrespondantes(appel.libelle) : i <= j
          /\ res.code = LignesSources[i].code_acte

\* C12 witness: three rows of two files match "Chute escalier"
C12_Temoin ==
    /\ Appele("normalise_acte") /\ SansEntree
    /\ appel.libelle = "Chute escalier"
    /\ Cardinality(LignesCorrespondantes(appel.libelle)) = 3
    /\ res.code = "TRAUMA_CHUTE"

\* C13: for every label that the pattern of an act-table row matches,
\* normalise returns the code of that row, whatever medication pattern,
\* keyword or built-in act keyword the label also matches.
C13_MotifActeDAbord ==
    (/\ Appele("normalise") /\ SansEntree
     /\ LignesCorrespondantes(appel.libelle) # {})
    => \E i \in LignesCorrespondantes(appel.libelle) :
          res.code = LignesSources[i].code_acte

\* C14: for every non-empty label, labels of spaces included, normalise
\* returns a string that is neither null nor empty.
C14_CodeJamaisVide ==
    (Appele("normalise") /\ appel.libelle # "")
    => (res.code # NONE /\ res.code # "")

\* C15: in a sequence of normalise calls on one instance, every call with a
\* label returns the code the first call with that label returned.
C15_MemeCodeQuePremierAppel ==
    (Appele("normalise") /\ journal.pur)
    => res.code = journal.premiers[appel.libelle]

\* C15 witness: a third call repeats the label of an earlier one after
\* another label was normalised
C15_Temoin ==
    /\ Appele("normalise") /\ journal.pur /\ journal.n = 3
    /\ ~ SansEntree
    /\ Cardinality(DOMAIN journal.premiers) = 2
    /\ Cardinality(DOMAIN appel.cache_avant) = 2
    /\ res.code = "TRAUMA_CHUTE"

\* C16: once the cache holds an entry for a key, no call of normalise,
\* normalise_acte or normalise_medicament changes or removes it, and no
\* call changes the lexicon.
C16_CacheEcritUneFois ==
    [][/\ \A k \in DOMAIN cache : k \in DOMAIN cache' /\ cache'[k] = cache[k]
       /\ config' = config]_vars

\* C16 witness: normalise_medicament met the entry None that an earlier call
\* left for a label its own steps would have classified
C16_Temoin ==
    /\ Appele("normalise_medicament") /\ ~ SansEntree
    /\ appel.cache_avant[CleCacheMemo(appel.libelle)] = NONE
    /\ ClasserMedicamentMemo(config, appel.libelle) = "MEDICAMENTS"
    /\ cache = appel.cache_avant
    /\ res.code = NONE

\* the configuration files without their unusable entry
FichiersSansEntreeAbimee(f) ==
    IF f = FichiersRegexInvalide THEN FichiersSansRegex
    ELSE IF f = FichiersGlossaireAbime THEN FichiersSains
    ELSE f

\* C17: a lexicon entry that cannot be used (a regex that does not compile,
\* a malformed glossary term) counts as no match for that entry only: the
\* first normalise call on a normaliser built on the files returns what a
\* normaliser built on the files without that entry returns.
C17_EntreeAbimeeSeule ==
    (Appele("normalise") /\ journal.n = 1)
    => \E ref \in LexiquesDe(FichiersSansEntreeAbimee(journal.fichiers)) :
          /\ ref.termes_actes = config.termes_actes
          /\ res.code = normalise(ref, CacheVide, appel.libelle).code

\* C28: the cache the two classifiers share never hands the result of one
\* to the other: normalise_medicament returns only 'MEDICAMENTS' or None,
\* and what normalise_acte or normalise_medicament returns for a label is
\* what it returns on a normaliser where no call was made before.
C28_CachePropreAuClassifieur ==
    /\ Appele("normalise_medicament")
          => /\ res.code \in {"MEDICAMENTS", NONE}
             /\ res.code =
                   normalise_medicament(config, CacheVide, appel.libelle).code
    /\ Appele("normalise_acte")
          => res.code = normalise_acte(config, CacheVide, appel.libelle).code

-----------------------------------------------------------------------------
(* Properties of the processor (SpecProc) *)

\* process_facture_pennypet has returned
Termine == pc = "done"
\* ... a success dict
Reussi == Termine /\ res.success

\* the extracted lines that are neither ignored nor hit by an exception
IndicesRendus ==
    {i \in 1..Len(data.lignes) :
        data.lignes[i].montant_ht > 0 /\ i \notin appel.fautes}
\* the k-th of them
IndiceRendu(k) ==
    CHOOSE i \in IndicesRendus : Cardinality({j \in IndicesRendus : j <= i}) = k

\* the accident keywords as the specification lists them
MotsAccidentEnonces ==
    {"accident", "urgent", "urgence", "fracture", "fract", "trauma",
     "traumatisme", "chute", "blessure"}
ContientMotEnonce(libelle) ==
    LET bas == Lower(libelle)
    IN  \E mot \in MotsAccidentEnonces : Contient(bas, mot)

\* C5: a returned line is flagged est_accident exactly when its label
\* contains, in any case, one of accident, urgent, urgence, fracture/fract,
\* trauma, traumatisme, chute, blessure; a 'chute' line under PREMIUM is
\* reimbursed min(amount, 500).
C5_AccidentSelonMotsCles ==
    Reussi =>
        \A k \in 1..Len(res.lignes) :
            LET e == res.lignes[k]
            IN  /\ e.est_accident <=> ContientMotEnonce(e.ligne.code_acte)
                /\ (appel.formule = "PREMIUM"
                      /\ Contient(Lower(e.ligne.code_acte), "chute"))
                   => e.montant_rembourse = Min(e.ligne.montant_ht, Euro(500))

\* no usable line comes out of the extraction: no client for the provider,
\* the client raises, the response is empty, the response holds no JSON
\* object, or the cleaning removes every line of the list
RienExtrait ==
    \/ ~ ClientDisponible(clients, appel.llm_provider)
    \/ appel.reponse.leve
    \/ appel.reponse.contenu.forme \in {"vide", "sans_accolade", "non_equilibre"}
    \/ /\ appel.reponse.contenu.forme = "json"
       /\ appel.reponse.contenu.genre_lignes = "liste"
       /\ LignesPropres(appel.reponse.contenu.lignes) = <<>>

\* C6: when the extraction yields no usable line, the call returns
\* success = False with a non-empty error, never success = True.
C6_RienExtraitEchec ==
    (Termine /\ RienExtrait)
    => /\ res.success = FALSE
       /\ res.error \notin {NONE, ""}

\* C7: when the processing of extracted lines raises, these lines are left
\* out of the result, erreurs_normalisation counts one per exception, every
\* other line with an amount is processed, and the call returns success.
C7_ExceptionLigneIsolee ==
    (Termine /\ data # AUCUN)
    => /\ res.success = TRUE
       /\ res.statistiques.erreurs_normalisation = Cardinality(appel.fautes)
       /\ Len(res.lignes) = Cardinality(IndicesRendus)
       /\ res.statistiques.lignes_traitees = Len(res.lignes)
       /\ \A k \in 1..Len(res.lignes) :
             res.lignes[k].ligne.code_acte
                = LibelleLigne(data.lignes[IndiceRendu(k)])

\* C7 witness: three lines with an amount, the second raises
C7_Temoin ==
    /\ Reussi
    /\ Len(data.lignes) = 3
    /\ appel.fautes = {2}
    /\ Len(res.lignes) = 2
    /\ res.statistiques.erreurs_normalisation = 1

\* an element of the LLM's list with a text for amount, with a valid amount
MontantNonNumerique(item) == item.est_dict /\ item.montant_ht.genre = "texte"
LigneSaine(item) ==
    /\ item.est_dict
    /\ Vrai(item.code_acte)
    /\ item.montant_ht.genre = "nombre"
    /\ item.montant_ht.valeur > 0
\* a parsed batch with exactly one non-numeric amount among valid lines
LotAvecUnMontantInvalide ==
    LET lot == appel.reponse.contenu.lignes
    IN  /\ data # AUCUN
        /\ appel.reponse.contenu.forme = "json"
        /\ appel.reponse.contenu.genre_lignes = "liste"
        /\ appel.fautes = {}
        /\ Len(lot) >= 2
        /\ \E i \in 1..Len(lot) :
              /\ MontantNonNumerique(lot[i])
              /\ \A j \in (1..Len(lot)) \ {i} : LigneSaine(lot[j])

\* C8: a batch with exactly one non-numeric amount returns success with the
\* other lines processed, and the bad line is counted in an error counter of
\* the returned statistics.
C8_MontantInvalideCompte ==
    (Termine /\ LotAvecUnMontantInvalide)
    => /\ res.success = TRUE
       /\ Len(res.lignes) = Len(appel.reponse.contenu.lignes) - 1
       /\ res.statistiques.erreurs_normalisation
            + res.statistiques.erreurs_json
            + res.statistiques.reconstructions_manuelles >= 1

\* the sum of the amounts of the extracted lines of a set of indices
RECURSIVE SommeExtraite(_)
SommeExtraite(S) ==
    IF S = {} THEN 0
    ELSE LET i == CHOOSE j \in S : TRUE
         IN  data.lignes[i].montant_ht + SommeExtraite(S \ {i})

\* C9: in a success dict total_facture is the sum of montant_ht over the
\* returned lines, total_rembourse the sum of their montant_rembourse and
\* reste_a_charge their difference, each rounded to the cent; ignored and
\* failed lines and the montant_total of the LLM count for nothing; lines of
\* 1500 and 300 under INTEGRAL_PLUS give 1800 / 1300 / 500.
C9_TotauxSommes ==
    Reussi =>
        LET tf == SommeMontantHT(res.lignes)
            tr == SommeRembourse(res.lignes)
        IN  /\ res.resume.total_facture \in Round2(tf)
            /\ res.resume.total_rembourse \in Round2(tr)
            /\ res.resume.reste_a_charge \in Round2(tf - tr)
            /\ tf = SommeExtraite(IndicesRendus)
            /\ (/\ appel.formule = "INTEGRAL_PLUS"
                /\ Cardinality(IndicesRendus) = 2
                /\ {data.lignes[i].montant_ht : i \in IndicesRendus}
                      = {Euro(1500), Euro(300)})
               => /\ res.resume.total_facture = Euro(1800)
                  /\ res.resume.total_rembourse = Euro(1300)
                  /\ res.resume.reste_a_charge = Euro(500)

\* C9 witness: 1500 and 300 under INTEGRAL_PLUS next to an ignored line,
\* with a montant_total of the LLM that is not the sum
C9_Temoin ==
    /\ Reussi
    /\ appel.formule = "INTEGRAL_PLUS"
    /\ Len(data.lignes) = 3
    /\ Len(res.lignes) = 2
    /\ data.montant_total # Euro(1800)
    /\ res.resume.total_facture = Euro(1800)
    /\ res.resume.total_rembourse = Euro(1300)
    /\ res.resume.reste_a_charge = Euro(500)

\* C10: the 'lignes' of a success dict hold one entry for each extracted
\* line with an amount > 0 whose processing did not raise, in the order of
\* the extracted lines; each entry carries the normalised code of the label,
\* its accident flag and what calculer_remboursement returns for the
\* requested formula.
C10_LignesRendues ==
    Reussi =>
        /\ Len(res.lignes) = Cardinality(IndicesRendus)
        /\ \A k \in 1..Len(res.lignes) :
              LET l       == data.lignes[IndiceRendu(k)]
                  e       == res.lignes[k]
                  libelle == LibelleLigne(l)
                  code    == normalise(config, CacheVide, libelle).code
                  remb    == calculer_remboursement(regles_pc_df, l.montant_ht,
                                 code, appel.formule, e.est_accident)
              IN  /\ e.ligne.code_acte = libelle
                  /\ e.ligne.montant_ht = l.montant_ht
                  /\ e.ligne.code_normalise = code
                  /\ e.est_accident = EstAccidentMemo(libelle)
                  /\ e.taux_remboursement = remb.taux
                  /\ e.montant_rembourse = remb.remb_final
                  /\ e.montant_reste_charge = remb.reste
                  /\ e.formule_appliquee = appel.formule

\* C10 witness: three extracted lines, the second without amount; the two
\* others are returned, one of them an accident with a reimbursement
C10_Temoin ==
    /\ Reussi
    /\ appel.fautes = {}
    /\ Len(data.lignes) = 3
    /\ data.lignes[2].montant_ht = 0
    /\ Len(res.lignes) = 2
    /\ res.lignes[1].est_accident
    /\ res.lignes[1].montant_rembourse > 0
    /\ res.lignes[2].ligne.code_normalise = "MEDICAMENTS"

\* two returned lines were priced from the same amount, normalised code and
\* accident flag (the formula is the one of the invoice for both)
MemesEntrees(j, k) ==
    /\ res.lignes[j].ligne.montant_ht = res.lignes[k].ligne.montant_ht
    /\ res.lignes[j].ligne.code_normalise = res.lignes[k].ligne.code_normalise
    /\ res.lignes[j].est_accident = res.lignes[k].est_accident

ListeRecue ==
    /\ Termine
    /\ ClientDisponible(clients, appel.llm_provider)
    /\ ~ appel.reponse.leve
    /\ appel.reponse.contenu.forme = "json"
    /\ appel.reponse.contenu.genre_lignes = "liste"
    /\ \A i \in 1..Len(appel.reponse.contenu.lignes) :
          appel.reponse.contenu.lignes[i].est_dict
    /\ appel.fautes = {}

\* an extracted line without code_acte, with a description and an amount > 0
LigneSansCode(item) ==
    /\ item.est_dict
    /\ ~ Vrai(item.code_acte)
    /\ Vrai(item.description)
    /\ item.montant_ht.genre = "nombre"
    /\ item.montant_ht.valeur > 0

\* C21: an extracted line that has no code_acte but a description and a
\* positive montant_ht is processed, not dropped, with its description as
\* the label: the invoice succeeds and a returned line carries that label
\* and that amount.
C21_LigneSansCodeTraitee ==
    ListeRecue =>
        \A i \in 1..Len(appel.reponse.contenu.lignes) :
            LigneSansCode(appel.reponse.contenu.lignes[i])
            => /\ res.success
               /\ \E k \in 1..Len(res.lignes) :
                     /\ res.lignes[k].ligne.code_acte =
                           NettoyerChaineMemo(
                               appel.reponse.contenu.lignes[i].description)
                     /\ res.lignes[k].ligne.montant_ht =
                           appel.reponse.contenu.lignes[i].montant_ht.valeur

\* C24: the cap of a formula is an annual cap on what is reimbursed, not a
\* cap per line: the total_rembourse of every invoice is at most 500 EUR
\* under PREMIUM and at most 1000 EUR under INTEGRAL and INTEGRAL_PLUS,
\* however many lines the invoice has.
C24_PlafondAnnuel ==
    Reussi =>
        /\ appel.formule = "PREMIUM"
              => res.resume.total_rembourse <= Euro(PlafondPremium)
        /\ appel.formule = "INTEGRAL"
              => res.resume.total_rembourse <= Euro(PlafondIntegral)
        /\ appel.formule = "INTEGRAL_PLUS"
              => res.resume.total_rembourse <= Euro(PlafondIntegralPlus)

\* the call reached extraire_json_robuste (line 665) with the response text
TexteExtrait ==
    /\ Termine
    /\ ClientDisponible(clients, appel.llm_provider)
    /\ ~ appel.reponse.leve
    /\ appel.reponse.contenu.forme # "vide"

\* C27: for any response text, a text without '{' and a text whose braces
\* never balance included, extraire_json_robuste raises nothing and returns
\* a dict: the parsed object, the reconstructed structure or the minimal
\* structure.
C27_ExtractionSansException ==
    TexteExtrait
    => /\ ~ extraire_json_robuste(appel.reponse.contenu).leve
       /\ extraire_json_robuste(appel.reponse.contenu).data # AUCUN

-----------------------------------------------------------------------------
(* Specification of the configuration: the construction of a PennyPetConfig *)

InitConfig ==
    /\ config_dir \in Dossiers
    /\ pennypet_config = AUCUN
    /\ pc_config = "debut"
    /\ ProcesseurNeuf(ConfigVide, [qwen |-> TRUE, mistral |-> TRUE])
    /\ regles_pc_df = DfVide
    /\ calc_in = AUCUN
    /\ calc_out = AUCUN
    /\ calc_pc = "retour"
    /\ journal = AUCUN
    /\ SansChat

\* PennyPetConfig(base_dir)
ConstruireConfig ==
    /\ pc_config = "debut"
    /\ pennypet_config' = PennyPetConfigInit(config_dir)
    /\ pc_config' = "fini"
    /\ UNCHANGED <<regles_pc_df, vars_proc, vars_calc, journal, config_dir,
                   vars_chat>>

NextConfig == ConstruireConfig

SpecConfig == InitConfig /\ [][NextConfig]_vars

-----------------------------------------------------------------------------
(* Properties of the configuration (SpecConfig) *)

ConfigConstruite == pc_config = "fini" /\ pennypet_config # AUCUN

\* C22: after the construction of a PennyPetConfig by any path (every file
\* present, files missing or unreadable, no configuration directory, an
\* exception during loading), actes_df has a 'pattern' column.
C22_ActesAvecPattern ==
    ConfigConstruite => "pattern" \in pennypet_config["actes_df"].colonnes

\* C22 witness: the file of actes_df is missing, the glossary was loaded
C22_Temoin ==
    /\ ConfigConstruite
    /\ config_dir.existe
    /\ config_dir.etat["actes_df"] = "absent"
    /\ pennypet_config["actes_df"].lignes = <<>>
    /\ pennypet_config["glossaire_pharmaceutique"] # {}

\* every file of the directory was read into its table
ToutCharge ==
    /\ config_dir.existe
    /\ \A f \in FichiersConfig :
          config_dir.etat[f] \in {"complet", "sans_ligne", "sans_regex"}

\* C23: after construction either every table was loaded from its file, or
\* the configuration is the empty configuration; a missing or unreadable
\* file never leaves some tables loaded and others empty.
C23_UneSeulePolitique ==
    ConfigConstruite => (ToutCharge \/ pennypet_config = init_empty_config)

-----------------------------------------------------------------------------
(* OpenRouterClient.chat: src/openrouter_client.py lines 196-227            *)
(*                                                                         *)
(* Durations are counted in quarters of a second.  random.uniform(0, 1) is *)
(* 0 + 1 * random(), a multiple of 2^-53 in [0, 1); the model draws the    *)
(* jitter from 0, 1/4, 1/2, 3/4 and the largest value 1 - 2^-53, for which *)
(* the floating-point sum 2 ** attempt + jitter rounds to 2^attempt + 1.   *)

Seconde == 4

\* the jitters, in quarters of a second; 4 stands for 1 - 2^-53
Gigues == 0..4

RECURSIVE Puissance2(_)
Puissance2(k) == IF k = 0 THEN 1 ELSE 2 * Puissance2(k - 1)

\* line 223: wait_time = 2 ** attempt + random.uniform(0, 1)
wait_time(k, gigue) == Seconde * Puissance2(k) + gigue

DansRangeInclus(k, n) == k <= n
\* line 217: attempt in range(retries)
DansRange(k, n) == k < n

Essai(k, issue) == [genre |-> "essai", attempt |-> k, issue |-> issue, duree |-> 0]
Attente(k, duree) ==
    [genre |-> "attente", attempt |-> k, issue |-> NONE, duree |-> duree]

InitChat ==
    /\ retries \in 0..MaxRetries
    /\ attempt = 0
    /\ last_exception = NONE
    /\ chat_pc = "boucle"
    /\ chat_out = AUCUN
    /\ chat_journal = <<>>
    /\ ProcesseurNeuf(ConfigVide, [qwen |-> TRUE, mistral |-> TRUE])
    /\ regles_pc_df = DfVide
    /\ calc_in = AUCUN
    /\ calc_out = AUCUN
    /\ calc_pc = "retour"
    /\ journal = AUCUN
    /\ SansConfig

\* lines 218-220: the API call of one turn of the loop succeeds
EssaiReussi ==
    /\ chat_pc = "boucle"
    /\ DansRange(attempt, retries)
    /\ chat_journal' = Append(chat_journal, Essai(attempt, "reponse"))
    /\ chat_out' = [genre |-> "reponse", de |-> attempt]
    /\ chat_pc' = "retour"
    /\ UNCHANGED <<regles_pc_df, vars_proc, vars_calc, journal, vars_config,
                   retries, attempt, last_exception>>

\* lines 218-222: the API call raises, the handler keeps the exception
EssaiEchoue ==
    /\ chat_pc = "boucle"
    /\ DansRange(attempt, retries)
    /\ chat_journal' = Append(chat_journal, Essai(attempt, "exception"))
    /\ last_exception' = attempt
    /\ chat_pc' = "attente"
    /\ UNCHANGED <<regles_pc_df, vars_proc, vars_calc, journal, vars_config,
                   retries, attempt, chat_out>>

\* lines 223-225: the handler sleeps wait_time, then the loop goes on
Attendre ==
    /\ chat_pc = "attente"
    /\ \E gigue \in Gigues :
          chat_journal' =
              Append(chat_journal, Attente(attempt, wait_time(attempt, gigue)))
    /\ attempt' = attempt + 1
    /\ chat_pc' = "boucle"
    /\ UNCHANGED <<regles_pc_df, vars_proc, vars_calc, journal, vars_config,
                   retries, last_exception, chat_out>>

\* line 227: the loop is over, chat raises RuntimeError
Lever ==
    /\ chat_pc = "boucle"
    /\ ~ DansRange(attempt, retries)
    /\ chat_out' = [genre |-> "RuntimeError", de |-> last_exception]
    /\ chat_pc' = "leve"
    /\ UNCHANGED <<regles_pc_df, vars_proc, vars_calc, journal, vars_config,
                   retries, attempt, last_exception, chat_journal>>

NextChat == EssaiReussi \/ EssaiEchoue \/ Attendre \/ Lever

SpecChat == InitChat /\ [][NextChat]_vars

-----------------------------------------------------------------------------
(* Properties of chat (SpecChat) *)

\* the positions of the API attempts in the journal
Essais == {i \in 1..Len(chat_journal) : chat_journal[i].genre = "essai"}
Attentes == {i \in 1..Len(chat_journal) : chat_journal[i].genre = "attente"}

ChatActif == chat_pc \in {"boucle", "attente"}
ChatFini == chat_pc \in {"retour", "leve"} /\ chat_out # AUCUN

\* C25: chat issues its API attempts one after another (an attempt begins
\* only after every earlier one has failed), returns the response of the
\* first attempt that succeeds with no further attempt or wait, and never
\* issues more than retries attempts.
C25_EssaisEnSuite ==
    (ChatActif \/ ChatFini) =>
        /\ Cardinality(Essais) <= retries
        /\ \A i \in Essais :
              /\ chat_journal[i].attempt = Cardinality({j \in Essais : j < i})
              /\ \A j \in Essais :
                    j < i => chat_journal[j].issue = "exception"
              /\ chat_journal[i].issue = "reponse"
                    => /\ i = Len(chat_journal)
                       /\ chat_pc = "retour"
                       /\ chat_out = [genre |-> "reponse",
                                      de |-> chat_journal[i].attempt]
        /\ chat_pc = "retour"
              => /\ chat_journal # <<>>
                 /\ chat_journal[Len(chat_journal)].issue = "reponse"

\* C25 witness: chat returned the response of its last allowed attempt,
\* after retries - 1 failures
C25_Temoin ==
    /\ ChatFini
    /\ chat_pc = "retour"
    /\ retries = 3
    /\ Cardinality(Essais) = 3
    /\ Cardinality(Attentes) = 2
    /\ chat_out.de = 2

\* C26: when every attempt fails chat raises RuntimeError with the last
\* exception after exactly retries attempts; the wait after failed attempt k
\* lies in [2^k, 2^k + 1) seconds; and a wait occurs only between two
\* attempts: none after the final failed attempt.
C26_AttentesEntreEssais ==
    (ChatFini /\ chat_pc = "leve") =>
        /\ Cardinality(Essais) = retries
        /\ chat_out.genre = "RuntimeError"
        /\ retries > 0 => chat_out.de = retries - 1
        /\ \A i \in Attentes :
              /\ chat_journal[i].duree
                    >= Seconde * Puissance2(chat_journal[i].attempt)
              /\ chat_journal[i].duree
                    < Seconde * (Puissance2(chat_journal[i].attempt) + 1)
              /\ i < Len(chat_journal)
              /\ chat_journal[i + 1].genre = "essai"

-----------------------------------------------------------------------------
(* _nettoyer_donnees_extraites on its own, lines 693-736                     *)
(*                                                                         *)
(* data is the dict the method works on; journal keeps the dict as it was  *)
(* given and as each call left it.                                         *)

\* the montant_total of the data given to the cleaning
TotauxBruts == {Nombre(Euro(310)), Texte, Absent, Enorme}

\* the informations_client of the data given to the cleaning
ClientsBruts ==
    {ClientAbsent, ClientNonDict} \cup {ClientDict(v) : v \in ValeursClient}

DonneesBrutes ==
    {[genre_lignes |-> g, lignes |-> <<>>, montant_total |-> t,
      informations_client |-> ic] :
        g \in {"absent", "autre"}, t \in TotauxBruts, ic \in ClientsBruts}
    \cup {[genre_lignes |-> "liste", lignes |-> l, montant_total |-> t,
           informations_client |-> ic] :
             l \in SeqMax(ItemsNettoyage, MaxLignes), t \in TotauxBruts,
             ic \in ClientsBruts}

InitNettoyage ==
    /\ regles_pc_df = TableLexique
    /\ config = ConfigLexique
    /\ clients = [qwen |-> TRUE, mistral |-> FALSE]
    /\ cache = CacheVide
    /\ stats = StatsZero
    /\ pc = "idle"
    /\ appel = AUCUN
    /\ res = AUCUN
    /\ data \in DonneesBrutes
    /\ journal = <<data>>
    /\ calc_in = AUCUN
    /\ calc_out = AUCUN
    /\ calc_pc = "retour"
    /\ SansConfig /\ SansChat

\* one call of the method on the dict, which a caller may repeat
NettoyerDonnees ==
    /\ Len(journal) < 3
    /\ data' = NettoyageSurPlace(data)
    /\ journal' = Append(journal, data')
    /\ pc' = "done"
    /\ UNCHANGED <<regles_pc_df, config, clients, cache, stats, appel, res,
                   vars_calc, vars_config, vars_chat>>

NextNettoyage == NettoyerDonnees

SpecNettoyage == InitNettoyage /\ [][NextNettoyage]_vars

\* a dict line with a numeric montant_ht >= 0 and a non-empty code_acte (an
\* integer too large for a float is a number >= 0)
LigneRetenue(l) ==
    /\ l.est_dict
    /\ l.montant_ht.genre \in {"nombre", "enorme"}
    /\ l.montant_ht.valeur >= 0
    /\ Vrai(l.code_acte)

\* sortie holds lines of entree, cleaned or not, in the order of entree
DansLOrdre(sortie, entree) ==
    \E f \in [1..Len(sortie) -> 1..Len(entree)] :
        /\ \A i, j \in 1..Len(sortie) : i < j => f[i] < f[j]
        /\ \A i \in 1..Len(sortie) :
              /\ entree[f[i]].est_dict
              /\ \/ sortie[i] = entree[f[i]]
                 \/ /\ entree[f[i]].montant_ht.genre # "enorme"
                    /\ sortie[i] = ItemNettoye(entree[f[i]])

\* C30: _nettoyer_donnees_extraites never raises and leaves in data['lignes']
\* only dict lines with a numeric montant_ht >= 0 and a non-empty code_acte,
\* in their original order; afterwards montant_total is a number and
\* informations_client is a dict; a second call leaves what the first left.
C30_NettoyageComplet ==
    Len(journal) >= 2 =>
        /\ journal[2].genre_lignes = "liste" =>
              /\ \A i \in 1..Len(journal[2].lignes) :
                    LigneRetenue(journal[2].lignes[i])
              /\ DansLOrdre(journal[2].lignes, journal[1].lignes)
        /\ journal[2].montant_total.genre \in {"nombre", "enorme"}
        /\ journal[2].informations_client.genre = "dict"
        /\ Len(journal) = 3 => journal[3] = journal[2]

Spec == SpecProc

====
